---- MODULE Spec2Model ----
(***************************************************************************)
(* The transaction index of services/index/txindex.go (TxIndex and its db  *)
(* helpers) over a transactional key-value store, and the in-memory block  *)
(* index of package blockchain (blockIndex), and the Merkle functions of    *)
(* nox/core/merkle/merkle.go.                                              *)
(*                                                                         *)
(* Spec        the index driven by caller transactions: Begin,             *)
(*             ConnectBlock, DisconnectBlock, Commit, Rollback, plus       *)
(*             TxBlockRegion and Init on the committed store.              *)
(* SpecInit    Init's two-phase scan over stores holding locators 1..K.    *)
(* SpecInitFair  SpecInit with the scan loop taking its next step.         *)
(* SpecLookup  TxBlockRegion over stores holding damaged records.          *)
(* SpecDrop    DropTxIndex as its sequence of store transactions, with     *)
(*             store failures, interrupts and process stops.               *)
(* SpecDropFair  SpecDrop with DropTxIndex run on and run again.           *)
(* SpecCreate  SpecDrop plus Create.                                       *)
(* SpecTopology  blockIndex.AddNode.                                       *)
(* SpecStatus  blockIndex.SetStatusFlags and UnsetStatusFlags.             *)
(* SpecLock    the public methods of blockIndex called by two threads,     *)
(*             one access to the shared state per step.                    *)
(* SpecPow     nextPowerOfTwo of nox/core/merkle/merkle.go.                *)
(* SpecMerkle  BuildMerkleTreeStore in both modes.                         *)
(* SpecRoots   BuildMerkleTreeStore on two lists.                          *)
(* SpecWitness ValidateWitnessCommitment.                                  *)
(* SpecGenerate  PrivateMinerAPI.Generate of services/miner/api.go and     *)
(*             the miner it receives block hashes from.                    *)
(* SpecGenerateFair  SpecGenerate with Generate and the miner running on.  *)
(***************************************************************************)
EXTENDS Integers, Sequences, FiniteSets, TLC

VARIABLES
    curBlockID,     \* TxIndex.curBlockID, the in-memory uint32 counter
    committed,      \* the store as committed: the three buckets
    pending,        \* the store as seen inside the caller's open transaction
    txState,        \* "none" | "open" | "failed" (an index call returned an error)
    calls,          \* ConnectBlock/DisconnectBlock calls made so far
    txOk,           \* the transaction contained a successful Connect/DisconnectBlock
    ret,            \* what the last index call returned
    initPc,         \* Init's position: "idle" | "forward" | "binary"
    highestKnown,   \* Init's locals
    nextUnknown,
    testBlockID,
    fwdProbes,      \* probes made by the running/last Init, per phase
    binProbes,
    dense,          \* the store also holds locators 1..dense (bulk stores of SpecInit)
    connected,      \* history: hashes of the connected blocks, most recent first
    lifoOk,         \* history: every successful DisconnectBlock was of Head(connected)
    uniqOk,         \* history: no ConnectBlock of a hash that was already indexed
    noAbort,        \* history: no transaction holding a successful call was rolled back
    snap,           \* history: counter and store before the last successful ConnectBlock
    round,          \* history: the last call was the DisconnectBlock right after it
    ds,             \* DropTxIndex/Create: the committed store, as existence and sizes
    dropPc,         \* DropTxIndex's position, "idle" when it is not running
    dropRet,        \* what the last DropTxIndex or Create returned, and from which step
    interrupt,      \* the interrupt channel of the running process is closed
    stops,          \* history: store failures, interrupts and process stops so far
    lastTx,         \* history: the writes of the last committed read-write transaction
    index,          \* blockIndex.index: hash -> node
    chainTips,      \* blockIndex.chainTips: height -> the list of tips at that height
    status,         \* blockNode.status of every node object
    added,          \* history: the nodes AddNode was called with, in order
    addOk,          \* history: no node was added twice, every parent was added first
    flagOps,        \* history: SetStatusFlags/UnsetStatusFlags calls made so far
    biLast,         \* history: the last SetStatusFlags/UnsetStatusFlags call
    rw,             \* blockIndex's sync.RWMutex: the writer and the readers holding it
    thr,            \* per caller thread: the blockIndex call it is in and its position
    lockOps,        \* history: calls started by the threads so far
    ghost,          \* history: the shared state if every call took effect at its unlock
    transactions,   \* BuildMerkleTreeStore's argument: the transactions, by number
    witness,        \* BuildMerkleTreeStore's argument
    other,          \* a transaction to put in place of the first one
    others,         \* a second list of transactions
    merkles,        \* the array BuildMerkleTreeStore returned, <<>> before the call
    merklesOther,   \* the array it returned for the list with the first replaced
    powIn,          \* nextPowerOfTwo's argument
    powOut,         \* what nextPowerOfTwo returned, 0 before the call
    blk,            \* ValidateWitnessCommitment's argument
    verdict,        \* what ValidateWitnessCommitment returned
    genPc,          \* PrivateMinerAPI.Generate's position, "idle" before the call
    numBlocks,      \* Generate's argument
    genI,           \* the i of Generate's loop
    reply,          \* Generate's reply slice, "" in the slots not assigned
    miner,          \* the miner behind blockHashC: "off" | "mining" | "stopped"
    genRet          \* what Generate returned

txVars == <<curBlockID, committed, pending, txState, calls, txOk, ret, initPc,
            highestKnown, nextUnknown, testBlockID, fwdProbes, binProbes, dense,
            connected, lifoOk, uniqOk, noAbort, snap, round>>

dropVars == <<ds, dropPc, dropRet, interrupt, stops, lastTx>>

biVars == <<index, chainTips, status, added, addOk, flagOps, biLast>>

lockVars == <<rw, thr, lockOps, ghost>>

mkVars == <<transactions, witness, other, others, merkles, merklesOther, powIn, powOut, blk, verdict>>

genVars == <<genPc, numBlocks, genI, reply, miner, genRet>>

vars == <<txVars, dropVars, biVars, lockVars, mkVars, genVars>>

idxVars == <<curBlockID, committed, pending, txState, calls, txOk>>
initVars == <<initPc, highestKnown, nextUnknown, testBlockID, fwdProbes, binProbes>>
histVars == <<connected, lifoOk, uniqOk, noAbort, snap, round>>

\* ---------------------------------------------------------------- bounds

\* ConnectBlock/DisconnectBlock calls made in a behaviour of Spec.
MaxCalls == 3
\* The largest bulk store of SpecInit holds MaxMultiple * increment locators.
MaxMultiple == 50
\* binProbes stops counting here.
ProbeCap == 20
\* Longest tx-index record held by a store of SpecLookup, in bytes.
MaxRecordLen == 13
\* The batch bound of the incremental drop: entries deleted per transaction.
MaxDeletions == 2
\* Tx entries and connected blocks of the largest index DropTxIndex is run on.
MaxEntries == 5
MaxIndexed == 3
\* Store failures, interrupts and process stops in a behaviour of SpecDrop.
MaxStops == 2
\* Calls the threads of SpecLock start in a behaviour.
MaxLockOps == 3
\* nextPowerOfTwo is called with 1..MaxPowIn
MaxPowIn == 1025
\* transaction lists hold up to MaxTxs transactions
MaxTxs == 7
\* blocks passed to ValidateWitnessCommitment hold up to MaxBlockTxs transactions
MaxBlockTxs == 3
\* the two lists whose roots are compared hold up to MaxRootTxs transactions
MaxRootTxs == 4
\* AddNode calls and status flag calls in a behaviour of SpecTopology.
MaxAdds == 5
MaxFlagOps == 2
\* Flags of a blockStatus the model tells apart.
StatusBits == 2

\* ---------------------------------------------------------------- values

Nil == "nil"

\* A uint32 is held as its two 16-bit halves <<high, low>>, so that its full
\* range and its wrap-around are those of the Go type.
Half == 65536

\* The uint32 of an int n, 0 <= n < 2^31.
U32(n) == <<n \div Half, n % Half>>

U32Add(a, b) ==
    LET lo == a[2] + b[2]
    IN  <<(a[1] + b[1] + (lo \div Half)) % Half, lo % Half>>

U32Sub(a, b) ==
    LET lo == a[2] - b[2]
        borrow == IF lo < 0 THEN 1 ELSE 0
    IN  <<(a[1] - b[1] - borrow + Half) % Half, (lo + Half) % Half>>

U32Div2(a) == <<a[1] \div 2, (a[1] % 2) * (Half \div 2) + (a[2] \div 2)>>

U32Less(a, b) == a[1] < b[1] \/ (a[1] = b[1] /\ a[2] < b[2])

U32LessEq(a, b) == a = b \/ U32Less(a, b)

\* The int of a uint32 below 2^31.
Small(a) == a[1] < Half \div 2
IntOf(a) == a[1] * Half + a[2]

\* byteOrder.PutUint32 / byteOrder.Uint32: four bytes, most significant first.
PutUint32(v) == <<v[1] \div 256, v[1] % 256, v[2] \div 256, v[2] % 256>>

Uint32(b) == <<b[1] * 256 + b[2], b[3] * 256 + b[4]>>

txEntrySize == 12

\* types.SerializedBlock as the index reads it: Hash(), Transactions() (their
\* hashes) and TxLoc().
BlockA == [hash |-> "hA", txns |-> <<"t1", "t2">>,
           txLocs |-> <<[TxStart |-> 81, TxLen |-> 300], [TxStart |-> 381, TxLen |-> 70000]>>]
BlockB == [hash |-> "hB", txns |-> <<"t1">>,
           txLocs |-> <<[TxStart |-> 81, TxLen |-> 257]>>]
BlockC == [hash |-> "hC", txns |-> <<"t2">>,
           txLocs |-> <<[TxStart |-> 90, TxLen |-> 16777300]>>]
BlockD == [hash |-> "hD", txns |-> <<"t3", "t3">>,
           txLocs |-> <<[TxStart |-> 81, TxLen |-> 120], [TxStart |-> 201, TxLen |-> 120]>>]

Blocks == {BlockA, BlockB, BlockC, BlockD}

TxHashes == {"t1", "t2", "t3"}

\* ---------------------------------------------------------------- buckets

EmptyBucket == <<>>

\* What Bucket.Get returns: nil for a missing key, else the stored bytes.
NilBytes == [present |-> FALSE, bytes |-> <<>>]

BucketGet(b, k) == IF k \in DOMAIN b THEN [present |-> TRUE, bytes |-> b[k]] ELSE NilBytes

BucketPut(b, k, v) == [x \in (DOMAIN b) \cup {k} |-> IF x = k THEN v ELSE b[x]]

BucketDelete(b, k) == [x \in (DOMAIN b) \ {k} |-> b[x]]

\* The three buckets Create allocates, empty.
EmptyStore == [idByHash |-> EmptyBucket, hashByID |-> EmptyBucket, txIndex |-> EmptyBucket]

\* Errors: a code and the key the message names.
NoErr == [code |-> "nil", key |-> "nil"]
ErrPut == [code |-> "store", key |-> "nil"]
ErrTxLoc == [code |-> "txloc", key |-> "nil"]
errNoBlockIDEntry == [code |-> "errNoBlockIDEntry", key |-> "nil"]
ErrCorruption(txHash) == [code |-> "ErrCorruption", key |-> txHash]
ErrNonExistent(txHash) == [code |-> "non-existent", key |-> txHash]

Ok(s) == [store |-> s, err |-> NoErr]
Fail(s, e) == [store |-> s, err |-> e]

\* ---------------------------------------------------------------- db helpers
\* A parameter f names the store write of the call that fails (0: none); writes
\* are numbered in the order the call issues them.

\* dbPutBlockIDIndexEntry returning after the hash->id put.
dbPutBlockIDIndexEntry_NoIDPut(s, hash, id, f) ==
    IF f = 1 THEN Fail(s, ErrPut)
    ELSE Ok([s EXCEPT !.idByHash = BucketPut(@, hash, PutUint32(id))])

dbPutBlockIDIndexEntry(s, hash, id, f) ==
    LET serializedID == PutUint32(id)
        s1 == [s EXCEPT !.idByHash = BucketPut(@, hash, serializedID)]
    IN  IF f = 1 THEN Fail(s, ErrPut)
        ELSE IF f = 2 THEN Fail(s1, ErrPut)
        ELSE Ok([s1 EXCEPT !.hashByID = BucketPut(@, serializedID, hash)])

\* dbRemoveBlockIDIndexEntry leaving the id->hash entry behind.
dbRemoveBlockIDIndexEntry_KeepsID(s, hash, f) ==
    IF hash \notin DOMAIN s.idByHash THEN Ok(s)
    ELSE IF f = 1 THEN Fail(s, ErrPut)
    ELSE Ok([s EXCEPT !.idByHash = BucketDelete(@, hash)])

dbRemoveBlockIDIndexEntry(s, hash, f) ==
    LET serializedID == BucketGet(s.idByHash, hash)
        s1 == [s EXCEPT !.idByHash = BucketDelete(@, hash)]
    IN  IF ~serializedID.present THEN Ok(s)
        ELSE IF f = 1 THEN Fail(s, ErrPut)
        ELSE IF f = 2 THEN Fail(s1, ErrPut)
        ELSE Ok([s1 EXCEPT !.hashByID = BucketDelete(@, serializedID.bytes)])

dbFetchBlockHashBySerializedID(s, serializedID) ==
    LET hashBytes == BucketGet(s.hashByID, serializedID)
    IN  IF ~hashBytes.present THEN [hash |-> Nil, err |-> errNoBlockIDEntry]
        ELSE [hash |-> hashBytes.bytes, err |-> NoErr]

dbFetchBlockHashByID(s, id) == dbFetchBlockHashBySerializedID(s, PutUint32(id))

putTxIndexEntry(blockID, txLoc) ==
    PutUint32(blockID) \o PutUint32(U32(txLoc.TxStart)) \o PutUint32(U32(txLoc.TxLen))

\* dbPutTxIndexEntry keeping the entry a hash already has.
dbPutTxIndexEntry_KeepsFirst(s, txHash, serializedData) ==
    IF txHash \in DOMAIN s.txIndex THEN s
    ELSE [s EXCEPT !.txIndex = BucketPut(@, txHash, serializedData)]

dbPutTxIndexEntry(s, txHash, serializedData) ==
    [s EXCEPT !.txIndex = BucketPut(@, txHash, serializedData)]

NoRegion == [Hash |-> Nil, Offset |-> U32(0), Len |-> U32(0)]

\* dbFetchTxIndexEntry reporting a missing key as a corrupt entry.
dbFetchTxIndexEntry_AbsentIsCorrupt(s, txHash) ==
    LET data == BucketGet(s.txIndex, txHash).bytes
        h == dbFetchBlockHashBySerializedID(s, SubSeq(data, 1, 4))
    IN  IF Len(data) < 12 \/ h.err # NoErr
        THEN [region |-> NoRegion, err |-> ErrCorruption(txHash)]
        ELSE [region |-> [Hash |-> h.hash,
                          Offset |-> Uint32(SubSeq(data, 5, 8)),
                          Len |-> Uint32(SubSeq(data, 9, 12))],
              err |-> NoErr]

dbFetchTxIndexEntry(s, txHash) ==
    LET serializedData == BucketGet(s.txIndex, txHash)
        data == serializedData.bytes
        h == dbFetchBlockHashBySerializedID(s, SubSeq(data, 1, 4))
    IN  IF Len(data) = 0 THEN [region |-> NoRegion, err |-> NoErr]
        ELSE IF Len(data) < 12 THEN [region |-> NoRegion, err |-> ErrCorruption(txHash)]
        ELSE IF h.err # NoErr THEN [region |-> NoRegion, err |-> ErrCorruption(txHash)]
        ELSE [region |-> [Hash |-> h.hash,
                          Offset |-> Uint32(SubSeq(data, 5, 8)),
                          Len |-> Uint32(SubSeq(data, 9, 12))],
              err |-> NoErr]

\* addEntries: one pre-sized buffer, entry i serialized at offset (i-1)*txEntrySize
\* and its own slice put under the i-th transaction's hash.
RECURSIVE addEntries(_, _, _, _, _, _)
addEntries(s, block, blockID, i, serializedValues, f) ==
    IF i > Len(block.txns) THEN Ok(s)
    ELSE LET offset == (i - 1) * txEntrySize
             endOffset == offset + txEntrySize
             entry == putTxIndexEntry(blockID, block.txLocs[i])
             buf == [k \in 1..Len(serializedValues) |->
                       IF k > offset /\ k <= endOffset THEN entry[k - offset]
                       ELSE serializedValues[k]]
         IN  IF f = i THEN Fail(s, ErrPut)
             ELSE addEntries(dbPutTxIndexEntry(s, block.txns[i],
                                 SubSeq(buf, offset + 1, endOffset)),
                             block, blockID, i + 1, buf, f)

dbAddTxIndexEntries(s, block, blockID, f) ==
    IF f = -1 THEN Fail(s, ErrTxLoc)
    ELSE addEntries(s, block, blockID, 1,
                    [k \in 1..(Len(block.txns) * txEntrySize) |-> 0], f)

\* dbRemoveTxIndexEntry treating a missing entry as nothing to do.
dbRemoveTxIndexEntry_IgnoresMissing(s, txHash, fails) ==
    IF txHash \notin DOMAIN s.txIndex THEN Ok(s)
    ELSE IF fails THEN Fail(s, ErrPut)
    ELSE Ok([s EXCEPT !.txIndex = BucketDelete(@, txHash)])

dbRemoveTxIndexEntry(s, txHash, fails) ==
    LET serializedData == BucketGet(s.txIndex, txHash)
    IN  IF Len(serializedData.bytes) = 0 THEN Fail(s, ErrNonExistent(txHash))
        ELSE IF fails THEN Fail(s, ErrPut)
        ELSE Ok([s EXCEPT !.txIndex = BucketDelete(@, txHash)])

RECURSIVE removeEntries(_, _, _, _)
removeEntries(s, block, i, f) ==
    IF i > Len(block.txns) THEN Ok(s)
    ELSE LET r == dbRemoveTxIndexEntry(s, block.txns[i], f = i)
         IN  IF r.err # NoErr THEN r
             ELSE removeEntries(r.store, block, i + 1, f)

\* dbRemoveTxIndexEntries leaving every entry of the block in place.
dbRemoveTxIndexEntries_KeepsAll(s, block, f) == Ok(s)

dbRemoveTxIndexEntries(s, block, f) == removeEntries(s, block, 1, f)

\* ---------------------------------------------------------------- TxIndex calls
\* Each yields the store the transaction then holds, the counter and the error.

\* ConnectBlock advancing the counter before its writes are known to succeed.
ConnectBlockOp_CounterFirst(s, cur, block, f) ==
    LET newBlockID == U32Add(cur, U32(1))
        r1 == dbAddTxIndexEntries(s, block, newBlockID, f)
        r2 == dbPutBlockIDIndexEntry(r1.store, block.hash, newBlockID,
                                     IF f > Len(block.txns) THEN f - Len(block.txns) ELSE 0)
    IN  IF r1.err # NoErr THEN [store |-> r1.store, cur |-> newBlockID, err |-> r1.err]
        ELSE [store |-> r2.store, cur |-> newBlockID, err |-> r2.err]

ConnectBlockOp(s, cur, block, f) ==
    LET newBlockID == U32Add(cur, U32(1))
        r1 == dbAddTxIndexEntries(s, block, newBlockID, f)
        r2 == dbPutBlockIDIndexEntry(r1.store, block.hash, newBlockID,
                                     IF f > Len(block.txns) THEN f - Len(block.txns) ELSE 0)
    IN  IF r1.err # NoErr THEN [store |-> r1.store, cur |-> cur, err |-> r1.err]
        ELSE IF r2.err # NoErr THEN [store |-> r2.store, cur |-> cur, err |-> r2.err]
        ELSE [store |-> r2.store, cur |-> newBlockID, err |-> NoErr]

\* DisconnectBlock without the decrement of the counter.
DisconnectBlockOp_NoDecrement(s, cur, block, f) ==
    LET r1 == dbRemoveTxIndexEntries(s, block, f)
        r2 == dbRemoveBlockIDIndexEntry(r1.store, block.hash,
                                        IF f > Len(block.txns) THEN f - Len(block.txns) ELSE 0)
    IN  IF r1.err # NoErr THEN [store |-> r1.store, cur |-> cur, err |-> r1.err]
        ELSE [store |-> r2.store, cur |-> cur, err |-> r2.err]

DisconnectBlockOp(s, cur, block, f) ==
    LET r1 == dbRemoveTxIndexEntries(s, block, f)
        r2 == dbRemoveBlockIDIndexEntry(r1.store, block.hash,
                                        IF f > Len(block.txns) THEN f - Len(block.txns) ELSE 0)
    IN  IF r1.err # NoErr THEN [store |-> r1.store, cur |-> cur, err |-> r1.err]
        ELSE IF r2.err # NoErr THEN [store |-> r2.store, cur |-> cur, err |-> r2.err]
        ELSE [store |-> r2.store, cur |-> U32Sub(cur, U32(1)), err |-> NoErr]

\* The write of ConnectBlock/DisconnectBlock that the store fails: none, one of
\* the per-transaction writes, the hash->id write, the id->hash write; -1 is
\* block.TxLoc() failing.
ConnectFaults(block) == (-1)..(Len(block.txns) + 2)
DisconnectFaults(block) == 0..(Len(block.txns) + 2)

\* ---------------------------------------------------------------- results, history

NoRet == [op |-> "none", arg |-> Nil, err |-> NoErr, region |-> NoRegion]

NoSnap == [cur |-> U32(0), store |-> EmptyStore, block |-> Nil]

\* The store an index call reads and writes: the open transaction's, else the
\* committed one.
View == IF txState = "none" THEN committed ELSE pending

\* ---------------------------------------------------------------- Init (the scan)

increment == 100000

\* dbFetchBlockHashByID inside Init's read-only transaction: err == nil.
InitProbe(id) ==
    \/ dbFetchBlockHashByID(committed, id).err = NoErr
    \/ (Small(id) /\ 1 <= IntOf(id) /\ IntOf(id) <= dense)

InitStart ==
    /\ txState = "none"
    /\ initPc = "idle"
    /\ initPc' = "forward"
    /\ highestKnown' = U32(0)
    /\ nextUnknown' = U32(0)
    /\ testBlockID' = U32(1)
    /\ fwdProbes' = 0
    /\ binProbes' = 0
    /\ ret' = NoRet
    /\ snap' = NoSnap
    /\ round' = FALSE
    /\ UNCHANGED <<idxVars, dense, connected, lifoOk, uniqOk, noAbort>>
    /\ UNCHANGED <<dropVars, biVars, lockVars, mkVars, genVars>>

\* One iteration of the forward loop; on the failing probe either the early
\* return (nextUnknown == 1) or the hand-over to the binary search.
InitForward ==
    /\ initPc = "forward"
    /\ fwdProbes' = fwdProbes + 1
    /\ IF InitProbe(testBlockID)
       THEN /\ highestKnown' = testBlockID
            /\ testBlockID' = U32Add(testBlockID, U32(increment))
            /\ UNCHANGED <<nextUnknown, initPc, ret>>
       ELSE /\ nextUnknown' = testBlockID
            /\ UNCHANGED <<highestKnown, testBlockID>>
            /\ IF testBlockID = U32(1)
               THEN /\ initPc' = "idle"
                    /\ ret' = [NoRet EXCEPT !.op = "Init"]
               ELSE /\ initPc' = "binary"
                    /\ UNCHANGED ret
    /\ UNCHANGED <<idxVars, binProbes, dense, histVars>>
    /\ UNCHANGED <<dropVars, biVars, lockVars, mkVars, genVars>>

\* One iteration of the binary search loop, with the assignment of the counter
\* when the loop breaks.
InitBinary ==
    /\ initPc = "binary"
    /\ LET mid == U32Div2(U32Add(highestKnown, nextUnknown))
           hk == IF InitProbe(mid) THEN mid ELSE highestKnown
           nu == IF InitProbe(mid) THEN nextUnknown ELSE mid
       IN  /\ testBlockID' = mid
           /\ highestKnown' = hk
           /\ nextUnknown' = nu
           /\ binProbes' = IF binProbes < ProbeCap THEN binProbes + 1 ELSE binProbes
           /\ IF U32Add(hk, U32(1)) = nu
              THEN /\ curBlockID' = hk
                   /\ initPc' = "idle"
                   /\ ret' = [NoRet EXCEPT !.op = "Init"]
              ELSE UNCHANGED <<curBlockID, initPc, ret>>
    /\ UNCHANGED <<committed, pending, txState, calls, txOk, fwdProbes, dense, histVars>>
    /\ UNCHANGED <<dropVars, biVars, lockVars, mkVars, genVars>>

\* ---------------------------------------------------------------- caller transactions

\* db.Update entered: the transaction starts from the committed store.
Begin ==
    /\ txState = "none"
    /\ initPc = "idle"
    /\ txState' = "open"
    /\ pending' = committed
    /\ txOk' = FALSE
    /\ ret' = NoRet
    /\ round' = FALSE
    /\ snap' = IF round THEN NoSnap ELSE snap
    /\ initPc' = "idle"
    /\ highestKnown' = U32(0)
    /\ nextUnknown' = U32(0)
    /\ testBlockID' = U32(0)
    /\ fwdProbes' = 0
    /\ binProbes' = 0
    /\ UNCHANGED <<curBlockID, committed, calls, dense, connected, lifoOk, uniqOk, noAbort>>
    /\ UNCHANGED <<dropVars, biVars, lockVars, mkVars, genVars>>

ConnectBlock(block, f) ==
    /\ txState = "open"
    /\ calls < MaxCalls
    /\ LET r == ConnectBlockOp(pending, curBlockID, block, f)
           ok == r.err = NoErr
       IN  /\ pending' = r.store
           /\ curBlockID' = r.cur
           /\ txState' = IF ok THEN "open" ELSE "failed"
           /\ txOk' = (txOk \/ ok)
           /\ ret' = [NoRet EXCEPT !.op = "ConnectBlock", !.arg = block.hash, !.err = r.err]
           /\ connected' = IF ok /\ lifoOk THEN <<block.hash>> \o connected ELSE connected
           /\ uniqOk' = (uniqOk /\ ~(ok /\ block.hash \in DOMAIN pending.idByHash))
           /\ snap' = IF ok THEN [cur |-> curBlockID, store |-> pending, block |-> block.hash]
                      ELSE NoSnap
    /\ calls' = calls + 1
    /\ round' = FALSE
    /\ UNCHANGED <<committed, initVars, dense, lifoOk, noAbort>>
    /\ UNCHANGED <<dropVars, biVars, lockVars, mkVars, genVars>>

DisconnectBlock(block, f) ==
    /\ txState = "open"
    /\ calls < MaxCalls
    /\ LET r == DisconnectBlockOp(pending, curBlockID, block, f)
           ok == r.err = NoErr
           lifo == connected # <<>> /\ Head(connected) = block.hash
           stillLifo == lifoOk /\ (ok => lifo)
           after == snap.block = block.hash /\ ~round /\ r.err.code # "store"
       IN  /\ pending' = r.store
           /\ curBlockID' = r.cur
           /\ txState' = IF ok THEN "open" ELSE "failed"
           /\ txOk' = (txOk \/ ok)
           /\ ret' = [NoRet EXCEPT !.op = "DisconnectBlock", !.arg = block.hash, !.err = r.err]
           /\ lifoOk' = stillLifo
           /\ connected' = IF ~stillLifo THEN <<>>
                           ELSE IF ok THEN Tail(connected) ELSE connected
           /\ round' = after
           /\ snap' = IF after THEN snap ELSE NoSnap
    /\ calls' = calls + 1
    /\ UNCHANGED <<committed, initVars, dense, uniqOk, noAbort>>
    /\ UNCHANGED <<dropVars, biVars, lockVars, mkVars, genVars>>

\* db.Update returning nil: the transaction's writes become the committed store.
Commit ==
    /\ txState = "open"
    /\ committed' = pending
    /\ txState' = "none"
    /\ UNCHANGED <<curBlockID, pending, calls, txOk, ret, initVars, dense, histVars>>
    /\ UNCHANGED <<dropVars, biVars, lockVars, mkVars, genVars>>

\* db.Update returning an error: the writes are discarded.  After an index call
\* returned an error this is the only way the transaction ends.
Rollback ==
    /\ txState \in {"open", "failed"}
    /\ pending' = committed
    /\ txState' = "none"
    /\ noAbort' = (noAbort /\ ~txOk)
    /\ connected' = IF txOk THEN <<>> ELSE connected
    /\ snap' = NoSnap
    /\ round' = FALSE
    /\ UNCHANGED <<curBlockID, committed, calls, txOk, ret, initVars, dense, lifoOk, uniqOk>>
    /\ UNCHANGED <<dropVars, biVars, lockVars, mkVars, genVars>>

\* TxBlockRegion: dbFetchTxIndexEntry inside db.View.
TxBlockRegion(h) ==
    /\ txState = "none"
    /\ initPc = "idle"
    /\ LET r == dbFetchTxIndexEntry(committed, h)
       IN  ret' = [NoRet EXCEPT !.op = "TxBlockRegion", !.arg = h,
                                !.err = r.err, !.region = r.region]
    /\ snap' = NoSnap
    /\ round' = FALSE
    /\ UNCHANGED <<idxVars, initVars, dense, connected, lifoOk, uniqOk, noAbort>>
    /\ UNCHANGED <<dropVars, biVars, lockVars, mkVars, genVars>>

\* ---------------------------------------------------------------- the store of Create and DropTxIndex
\* For Create and DropTxIndex the committed store is held as what they read and
\* write: whether the index tip and the drop marker are set, whether the address
\* index exists, and for each of the three buckets whether it exists and how
\* many entries it holds.

Absent == -1

BucketNames == {"idByHash", "hashByID", "tx"}

NoStore == [tip |-> FALSE, marker |-> FALSE, addr |-> FALSE,
            tx |-> Absent, idByHash |-> Absent, hashByID |-> Absent]

\* An index holding `blocks` connected blocks and `entries` tx entries.
IndexedStore(blocks, entries, withAddr) ==
    [tip |-> TRUE, marker |-> FALSE, addr |-> withAddr,
     tx |-> entries, idByHash |-> blocks, hashByID |-> blocks]

\* What one transaction has done: the store it holds, whether it failed, its
\* writes in order, the entries it deleted.
TxResult(d, failed, writes, deleted) ==
    [store |-> d, err |-> failed, writes |-> writes, deleted |-> deleted]

\* Metadata().CreateBucket making an existing bucket empty instead of failing.
CreateBucket_Truncates(r, name, fails) ==
    IF r.err THEN r
    ELSE IF fails THEN [r EXCEPT !.err = TRUE]
    ELSE [r EXCEPT !.store[name] = 0, !.writes = Append(@, "create " \o name)]

\* Metadata().CreateBucket: an error when the bucket exists.
CreateBucket(r, name, fails) ==
    IF r.err THEN r
    ELSE IF fails \/ r.store[name] # Absent THEN [r EXCEPT !.err = TRUE]
    ELSE [r EXCEPT !.store[name] = 0, !.writes = Append(@, "create " \o name)]

\* Metadata().DeleteBucket: an error when the bucket does not exist.
DeleteBucket(r, name, fails) ==
    IF r.err THEN r
    ELSE IF fails \/ r.store[name] = Absent THEN [r EXCEPT !.err = TRUE]
    ELSE [r EXCEPT !.store[name] = Absent,
                   !.writes = Append(@, "delete " \o name),
                   !.deleted = @ + r.store[name]]

NoDropRet == [op |-> "none", code |-> "none", at |-> "none", held |-> NoStore]

NoTx == [by |-> "none", writes |-> <<>>, deleted |-> 0]

\* No DropTxIndex is running; the store is that of a created, empty index.
DropIdle ==
    /\ ds = IndexedStore(0, 0, FALSE)
    /\ dropPc = "idle"
    /\ dropRet = NoDropRet
    /\ interrupt = FALSE
    /\ stops = 0
    /\ lastTx = NoTx

\* ---------------------------------------------------------------- the nodes of blockIndex
\* The node objects callers hold: hash, parent (a node or none) and height.
\* g is the genesis node; x and y are siblings; c and d are children of x.

BlockNodes ==
    [g |-> [hash |-> "g", parent |-> Nil, height |-> 0],
     x |-> [hash |-> "x", parent |-> "g", height |-> 1],
     y |-> [hash |-> "y", parent |-> "g", height |-> 1],
     c |-> [hash |-> "c", parent |-> "x", height |-> 2],
     d |-> [hash |-> "d", parent |-> "x", height |-> 2],
     e |-> [hash |-> "e", parent |-> "y", height |-> 2]]

NodeIDs == DOMAIN BlockNodes

\* newBlockIndex: both maps empty; no status flag set on any node.
TopologyEmpty ==
    /\ index = <<>>
    /\ chainTips = <<>>
    /\ status = [n \in NodeIDs |-> 0]
    /\ added = <<>>
    /\ addOk = TRUE
    /\ flagOps = 0
    /\ biLast = [op |-> "none", node |-> Nil, flags |-> 0]

\* The caller threads of the block index.
Threads == {"t1", "t2"}

IdleThread == [pc |-> "idle", op |-> "none", node |-> Nil, flags |-> 0, tmp |-> 0, res |-> Nil]

\* Nobody holds the lock, no thread is in a call.
LockIdle ==
    /\ rw = [writer |-> Nil, readers |-> {}]
    /\ thr = [t \in Threads |-> IdleThread]
    /\ lockOps = 0
    /\ ghost = [index |-> <<>>, chainTips |-> <<>>, status |-> [n \in NodeIDs |-> 0]]

\* ---------------------------------------------------------------- hashes

\* A hash value is a term: equal terms are equal hashes, and two hashes made in
\* different ways differ.  <<>> is the nil *hash.Hash of an empty slot.
NoHash == <<>>

\* hash.ZeroHash, and the hash.Hash{} of the empty tree.
ZeroHash == <<"zero">>

\* tx.Tx.TxHash(): the hash of the transaction without its witness data.
TxHash(tx) == <<"txid", tx>>

\* tx.Tx.TxHashFull(): the hash of the transaction with its witness data.
TxHashFull(tx) == <<"full", tx>>

\* hash.DoubleHashH of the bytes of a hash followed by further bytes.
DoubleHashH(h, rest) == <<"D", h, rest>>

NoBlock == [transactions |-> <<>>, txIn |-> 0, commitment |-> ZeroHash, signScript |-> 0]
NoVerdict == [kind |-> "none", computed |-> NoHash, embedded |-> NoHash]

\* No Merkle function was called.
MerkleIdle ==
    /\ transactions = <<>>
    /\ witness = FALSE
    /\ other = 0
    /\ others = <<>>
    /\ merkles = <<>>
    /\ merklesOther = <<>>
    /\ powIn = 0
    /\ powOut = 0
    /\ blk = NoBlock
    /\ verdict = NoVerdict

\* Generate was not called.
GenIdle ==
    /\ genPc = "idle"
    /\ numBlocks = 0
    /\ genI = 0
    /\ reply = <<>>
    /\ miner = "off"
    /\ genRet = [reply |-> <<>>, err |-> "none"]

\* ---------------------------------------------------------------- Spec

\* NewTxIndex on a store where Create has run.
Init ==
    /\ curBlockID = U32(0)
    /\ committed = EmptyStore
    /\ pending = EmptyStore
    /\ txState = "none"
    /\ calls = 0
    /\ txOk = FALSE
    /\ ret = NoRet
    /\ initPc = "idle"
    /\ highestKnown = U32(0)
    /\ nextUnknown = U32(0)
    /\ testBlockID = U32(0)
    /\ fwdProbes = 0
    /\ binProbes = 0
    /\ dense = 0
    /\ connected = <<>>
    /\ lifoOk = TRUE
    /\ uniqOk = TRUE
    /\ noAbort = TRUE
    /\ snap = NoSnap
    /\ round = FALSE
    /\ DropIdle
    /\ TopologyEmpty
    /\ LockIdle
    /\ MerkleIdle
    /\ GenIdle

Next ==
    \/ Begin
    \/ \E block \in Blocks : \E f \in ConnectFaults(block) : ConnectBlock(block, f)
    \/ \E block \in Blocks : \E f \in DisconnectFaults(block) : DisconnectBlock(block, f)
    \/ Commit
    \/ Rollback
    \/ \E h \in TxHashes : TxBlockRegion(h)
    \/ InitStart
    \/ InitForward
    \/ InitBinary

Spec == Init /\ [][Next]_vars

\* ---------------------------------------------------------------- SpecInit
\* Init run on stores whose id->hash keys are exactly 1..K.

DenseCounts ==
    {0, 1, 2, increment - 1, increment, increment + 1, MaxMultiple * increment,
     2147483647}

InitScan ==
    /\ curBlockID = U32(0)
    /\ committed = EmptyStore
    /\ pending = EmptyStore
    /\ txState = "none"
    /\ calls = 0
    /\ txOk = FALSE
    /\ ret = NoRet
    /\ initPc = "idle"
    /\ highestKnown = U32(0)
    /\ nextUnknown = U32(0)
    /\ testBlockID = U32(0)
    /\ fwdProbes = 0
    /\ binProbes = 0
    /\ dense \in DenseCounts
    /\ connected = <<>>
    /\ lifoOk = TRUE
    /\ uniqOk = TRUE
    /\ noAbort = TRUE
    /\ snap = NoSnap
    /\ round = FALSE
    /\ DropIdle
    /\ TopologyEmpty
    /\ LockIdle
    /\ MerkleIdle
    /\ GenIdle

NextScan ==
    \/ InitStart
    \/ InitForward
    \/ InitBinary

SpecInit == InitScan /\ [][NextScan]_vars

\* Init is one sequential loop: once called it keeps taking its next step.
SpecInitFair == SpecInit /\ WF_vars(NextScan)

\* ---------------------------------------------------------------- SpecLookup
\* TxBlockRegion on stores whose tx-index records are damaged: block hA is
\* indexed under locator 1, and each of t1, t2 is missing or holds the first n
\* bytes of an entry (n up to MaxRecordLen, zero bytes past the twelfth) naming
\* locator 1 (indexed) or locator 2 (not indexed).

PaddedEntry(blockID) ==
    putTxIndexEntry(blockID, [TxStart |-> 81, TxLen |-> 300])
        \o [k \in 1..(MaxRecordLen - txEntrySize) |-> 0]

Records ==
    {SubSeq(PaddedEntry(U32(id)), 1, n) : id \in {1, 2}, n \in 0..MaxRecordLen}

DamagedTxIndexes ==
    {EmptyBucket}
        \cup {[h \in {"t1"} |-> r] : r \in Records}
        \cup {[h \in {"t1", "t2"} |-> IF h = "t1" THEN r1 ELSE r2] : r1 \in Records, r2 \in Records}

InitLookup ==
    /\ curBlockID = U32(1)
    /\ \E t \in DamagedTxIndexes :
          committed = [idByHash |-> [h \in {"hA"} |-> PutUint32(U32(1))],
                       hashByID |-> [k \in {PutUint32(U32(1))} |-> "hA"],
                       txIndex |-> t]
    /\ pending = committed
    /\ txState = "none"
    /\ calls = 0
    /\ txOk = FALSE
    /\ ret = NoRet
    /\ initPc = "idle"
    /\ highestKnown = U32(0)
    /\ nextUnknown = U32(0)
    /\ testBlockID = U32(0)
    /\ fwdProbes = 0
    /\ binProbes = 0
    /\ dense = 0
    /\ connected = <<>>
    /\ lifoOk = TRUE
    /\ uniqOk = TRUE
    /\ noAbort = TRUE
    /\ snap = NoSnap
    /\ round = FALSE
    /\ DropIdle
    /\ TopologyEmpty
    /\ LockIdle
    /\ MerkleIdle
    /\ GenIdle

NextLookup == \E h \in TxHashes : TxBlockRegion(h)

SpecLookup == InitLookup /\ [][NextLookup]_vars

\* ---------------------------------------------------------------- DropTxIndex, Create
\* DropTxIndex as the sequence of its database transactions, one action each.
\* A parameter `fails` is the store failing that transaction.

Min(a, b) == IF a < b THEN a ELSE b

BeginTx(d) == TxResult(d, FALSE, <<>>, 0)

\* DropTxIndex deleting its own entries before it drops the dependent index.
StepAfter_EntriesFirst(at) ==
    CASE at = "exists" -> "mark"
      [] at = "mark" -> "flat"
      [] at = "flat" -> "addr"
      [] at = "addr" -> "blockid"
      [] at = "blockid" -> "meta"
      [] at = "meta" -> "idle"

\* The step DropTxIndex goes on with when step `at` has returned nil; "idle" is
\* its own return of nil.
StepAfter(at) ==
    CASE at = "exists" -> "mark"
      [] at = "mark" -> "addr"
      [] at = "addr" -> "flat"
      [] at = "flat" -> "blockid"
      [] at = "blockid" -> "meta"
      [] at = "meta" -> "idle"

\* A store failure is charged to the budget of stops.
Charge(fails) ==
    /\ fails => stops < MaxStops
    /\ stops' = IF fails THEN stops + 1 ELSE stops

\* The step returns from DropTxIndex with an error; its transaction, if any, is
\* rolled back.
DropFails(at, code, held) ==
    /\ dropPc' = "idle"
    /\ dropRet' = [op |-> "Drop", code |-> code, at |-> at, held |-> held]
    /\ UNCHANGED <<ds, lastTx>>

\* The step's transaction commits and DropTxIndex goes on with `next`.
DropCommits(at, r, next) ==
    /\ ds' = r.store
    /\ lastTx' = [by |-> at, writes |-> r.writes, deleted |-> r.deleted]
    /\ dropPc' = next
    /\ dropRet' = IF next = "idle"
                  THEN [op |-> "Drop", code |-> "nil", at |-> at, held |-> r.store]
                  ELSE dropRet

\* DropTxIndex is called by a process that has just started.
DropStart ==
    /\ dropPc = "idle"
    /\ dropPc' = "exists"
    /\ dropRet' = NoDropRet
    /\ interrupt' = FALSE
    /\ UNCHANGED <<ds, stops, lastTx, txVars, biVars, lockVars, mkVars, genVars>>

\* DropTxIndex not looking at what existsIndex found.
DropExists_AlwaysDrops(fails) ==
    /\ dropPc = "exists"
    /\ Charge(fails)
    /\ IF fails THEN DropFails("exists", "err", ds)
       ELSE /\ dropPc' = StepAfter("exists")
            /\ UNCHANGED <<ds, lastTx, dropRet>>
    /\ UNCHANGED <<interrupt, txVars, biVars, lockVars, mkVars, genVars>>

\* DropTxIndex going on to the dependent index without marking the deletion.
DropExists_SkipsMark(fails) ==
    /\ dropPc = "exists"
    /\ Charge(fails)
    /\ IF fails THEN DropFails("exists", "err", ds)
       ELSE IF ~ds.tip
            THEN /\ dropPc' = "idle"
                 /\ dropRet' = [op |-> "Drop", code |-> "nil", at |-> "exists", held |-> ds]
                 /\ UNCHANGED <<ds, lastTx>>
            ELSE /\ dropPc' = "addr"
                 /\ UNCHANGED <<ds, lastTx, dropRet>>
    /\ UNCHANGED <<interrupt, txVars, biVars, lockVars, mkVars, genVars>>

\* existsIndex: the index exists when its tip is recorded.
DropExists(fails) ==
    /\ dropPc = "exists"
    /\ Charge(fails)
    /\ IF fails THEN DropFails("exists", "err", ds)
       ELSE IF ~ds.tip
            THEN /\ dropPc' = "idle"
                 /\ dropRet' = [op |-> "Drop", code |-> "nil", at |-> "exists", held |-> ds]
                 /\ UNCHANGED <<ds, lastTx>>
            ELSE /\ dropPc' = StepAfter("exists")
                 /\ UNCHANGED <<ds, lastTx, dropRet>>
    /\ UNCHANGED <<interrupt, txVars, biVars, lockVars, mkVars, genVars>>

\* markIndexDeletion
DropMark(fails) ==
    /\ dropPc = "mark"
    /\ Charge(fails)
    /\ LET r == [BeginTx(ds) EXCEPT !.store.marker = TRUE, !.writes = <<"put marker">>]
       IN  IF fails THEN DropFails("mark", "err", r.store)
           ELSE DropCommits("mark", r, StepAfter("mark"))
    /\ UNCHANGED <<interrupt, txVars, biVars, lockVars, mkVars, genVars>>

\* DropAddrIndex, the drop of the dependent index, which watches the interrupt.
DropAddr(fails) ==
    /\ dropPc = "addr"
    /\ Charge(fails)
    /\ LET r == [BeginTx(ds) EXCEPT !.store.addr = FALSE, !.writes = <<"drop addr index">>]
       IN  IF fails THEN DropFails("addr", "err", ds)
           ELSE IF interrupt /\ ds.addr THEN DropFails("addr", "interrupt", ds)
           ELSE DropCommits("addr", r, StepAfter("addr"))
    /\ UNCHANGED <<interrupt, txVars, biVars, lockVars, mkVars, genVars>>

\* incrementalFlatDrop, one turn of its loop: a transaction that deletes up to
\* MaxDeletions entries through a cursor, then the look at the interrupt.
DropFlat(fails) ==
    /\ dropPc = "flat"
    /\ Charge(fails)
    /\ LET numDeleted == Min(IF ds.tx = Absent THEN 0 ELSE ds.tx, MaxDeletions)
           r == [BeginTx(ds) EXCEPT !.store.tx = IF ds.tx = Absent THEN Absent ELSE @ - numDeleted,
                                    !.writes = [i \in 1..numDeleted |-> "delete entry"],
                                    !.deleted = numDeleted]
       IN  IF fails THEN DropFails("flat", "err", r.store)
           ELSE IF interrupt
                THEN /\ ds' = r.store
                     /\ lastTx' = [by |-> "flat", writes |-> r.writes, deleted |-> r.deleted]
                     /\ dropPc' = "idle"
                     /\ dropRet' = [op |-> "Drop", code |-> "interrupt", at |-> "flat",
                                    held |-> r.store]
                ELSE DropCommits("flat", r,
                                 IF numDeleted = MaxDeletions THEN "flat" ELSE StepAfter("flat"))
    /\ UNCHANGED <<interrupt, txVars, biVars, lockVars, mkVars, genVars>>

\* dropBlockIDIndex keeping the id->hash bucket.
dropBlockIDIndex_KeepsHashByID(d, f) == DeleteBucket(BeginTx(d), "idByHash", f = 1)

\* dropBlockIDIndex: both buckets deleted in one transaction; f is the delete
\* the store fails (0: none).
dropBlockIDIndex(d, f) ==
    DeleteBucket(DeleteBucket(BeginTx(d), "idByHash", f = 1), "hashByID", f = 2)

\* DropTxIndex keeping what a failed dropBlockIDIndex had already deleted.
DropBlockID_NoRollback(f) ==
    /\ dropPc = "blockid"
    /\ Charge(f # 0)
    /\ LET r == dropBlockIDIndex(ds, f)
       IN  IF r.err
           THEN /\ ds' = r.store
                /\ dropPc' = "idle"
                /\ dropRet' = [op |-> "Drop", code |-> "err", at |-> "blockid", held |-> r.store]
                /\ UNCHANGED lastTx
           ELSE DropCommits("blockid", r, StepAfter("blockid"))
    /\ UNCHANGED <<interrupt, txVars, biVars, lockVars, mkVars, genVars>>

DropBlockID(f) ==
    /\ dropPc = "blockid"
    /\ Charge(f # 0)
    /\ LET r == dropBlockIDIndex(ds, f)
       IN  IF r.err THEN DropFails("blockid", "err", r.store)
           ELSE DropCommits("blockid", r, StepAfter("blockid"))
    /\ UNCHANGED <<interrupt, txVars, biVars, lockVars, mkVars, genVars>>

\* dropIndexMetadata: the tip, the index bucket and the marker, in one
\* transaction, the marker last.
DropMeta(fails) ==
    /\ dropPc = "meta"
    /\ Charge(fails)
    /\ LET r1 == [BeginTx(ds) EXCEPT !.store.tip = FALSE, !.writes = <<"delete tip">>]
           r2 == DeleteBucket(r1, "tx", FALSE)
           r3 == [r2 EXCEPT !.store.marker = FALSE, !.writes = Append(@, "delete marker")]
       IN  IF fails THEN DropFails("meta", "err", r1.store)
           ELSE DropCommits("meta", [r3 EXCEPT !.err = FALSE], StepAfter("meta"))
    /\ UNCHANGED <<interrupt, txVars, biVars, lockVars, mkVars, genVars>>

\* The interrupt channel is closed while DropTxIndex runs.
Interrupt ==
    /\ dropPc # "idle"
    /\ ~interrupt
    /\ stops < MaxStops
    /\ interrupt' = TRUE
    /\ stops' = stops + 1
    /\ UNCHANGED <<ds, dropPc, dropRet, lastTx, txVars, biVars, lockVars, mkVars, genVars>>

\* The process stops between two of DropTxIndex's transactions.
ProcessStop ==
    /\ dropPc # "idle"
    /\ stops < MaxStops
    /\ stops' = stops + 1
    /\ dropPc' = "idle"
    /\ dropRet' = NoDropRet
    /\ interrupt' = FALSE
    /\ UNCHANGED <<ds, lastTx, txVars, biVars, lockVars, mkVars, genVars>>

\* Create without the tx index bucket.
CreateOp_NoTxBucket(d, f) ==
    CreateBucket(CreateBucket(BeginTx(d), "idByHash", f = 1), "hashByID", f = 2)

\* TxIndex.Create: f is the CreateBucket the store fails (0: none).
CreateOp(d, f) ==
    CreateBucket(CreateBucket(CreateBucket(BeginTx(d), "idByHash", f = 1),
                              "hashByID", f = 2),
                 "tx", f = 3)

\* Create called inside the index manager's read-write transaction, which
\* commits when Create returns nil and is rolled back otherwise.
Create(f) ==
    /\ dropPc = "idle"
    /\ Charge(f # 0)
    /\ LET r == CreateOp(ds, f)
       IN  IF r.err
           THEN /\ dropRet' = [op |-> "Create", code |-> "err", at |-> "create", held |-> r.store]
                /\ UNCHANGED <<ds, lastTx>>
           ELSE /\ dropRet' = [op |-> "Create", code |-> "nil", at |-> "create", held |-> r.store]
                /\ ds' = r.store
                /\ lastTx' = [by |-> "create", writes |-> r.writes, deleted |-> r.deleted]
    /\ UNCHANGED <<dropPc, interrupt, txVars, biVars, lockVars, mkVars, genVars>>

\* DropTxIndex run on indexes of every size up to the bounds.
InitDrop ==
    /\ curBlockID = U32(0)
    /\ committed = EmptyStore
    /\ pending = EmptyStore
    /\ txState = "none"
    /\ calls = 0
    /\ txOk = FALSE
    /\ ret = NoRet
    /\ initPc = "idle"
    /\ highestKnown = U32(0)
    /\ nextUnknown = U32(0)
    /\ testBlockID = U32(0)
    /\ fwdProbes = 0
    /\ binProbes = 0
    /\ dense = 0
    /\ connected = <<>>
    /\ lifoOk = TRUE
    /\ uniqOk = TRUE
    /\ noAbort = TRUE
    /\ snap = NoSnap
    /\ round = FALSE
    /\ \E blocks \in 0..MaxIndexed : \E entries \in blocks..MaxEntries : \E withAddr \in BOOLEAN :
          ds = IndexedStore(blocks, entries, withAddr)
    /\ dropPc = "idle"
    /\ dropRet = NoDropRet
    /\ interrupt = FALSE
    /\ stops = 0
    /\ lastTx = NoTx
    /\ TopologyEmpty
    /\ LockIdle
    /\ MerkleIdle
    /\ GenIdle

\* DropTxIndex taking its next step without a store failure.
DropRuns ==
    \/ DropStart
    \/ DropExists(FALSE)
    \/ DropMark(FALSE)
    \/ DropAddr(FALSE)
    \/ DropFlat(FALSE)
    \/ DropBlockID(0)
    \/ DropMeta(FALSE)

NextDrop ==
    \/ DropStart
    \/ \E fails \in BOOLEAN : DropExists(fails)
    \/ \E fails \in BOOLEAN : DropMark(fails)
    \/ \E fails \in BOOLEAN : DropAddr(fails)
    \/ \E fails \in BOOLEAN : DropFlat(fails)
    \/ \E f \in 0..2 : DropBlockID(f)
    \/ \E fails \in BOOLEAN : DropMeta(fails)
    \/ Interrupt
    \/ ProcessStop

SpecDrop == InitDrop /\ [][NextDrop]_vars

\* A called DropTxIndex runs on, and a stopped or failed drop is run again.
SpecDropFair == SpecDrop /\ WF_vars(DropRuns)

NextCreate ==
    \/ NextDrop
    \/ \E f \in 0..3 : Create(f)

SpecCreate == InitDrop /\ [][NextCreate]_vars

\* ---------------------------------------------------------------- blockIndex
\* chainTips[height], nil for a height without entry.
TipsAt(tips, height) == IF height \in DOMAIN tips THEN tips[height] ELSE <<>>

addChainTip(tips, tip) ==
    LET height == BlockNodes[tip].height
    IN  [h \in (DOMAIN tips) \cup {height} |->
            IF h = height THEN Append(TipsAt(tips, height), tip) ELSE tips[h]]

\* removeChainTip keeping the entry of a height whose list it has emptied.
removeChainTip_KeepsEmpty(tips, tip) ==
    LET height == BlockNodes[tip].height
        nodes == TipsAt(tips, height)
        found == {i \in DOMAIN nodes : nodes[i] = tip}
        i == CHOOSE k \in found : \A j \in found : k <= j
        rest == IF found = {} THEN nodes
                ELSE SubSeq(nodes, 1, i - 1) \o SubSeq(nodes, i + 1, Len(nodes))
    IN  [h \in (DOMAIN tips) \cup {height} |-> IF h = height THEN rest ELSE tips[h]]

\* removeChainTip dropping every tip of the height.
removeChainTip_ClearsHeight(tips, tip) ==
    [h \in (DOMAIN tips) \ {BlockNodes[tip].height} |-> tips[h]]

\* removeChainTip: the first occurrence of the node is cut out of its height's
\* list; the height's entry is deleted when the list is left empty.
removeChainTip(tips, tip) ==
    LET height == BlockNodes[tip].height
        nodes == TipsAt(tips, height)
        found == {i \in DOMAIN nodes : nodes[i] = tip}
        i == CHOOSE k \in found : \A j \in found : k <= j
        rest == IF found = {} THEN nodes
                ELSE SubSeq(nodes, 1, i - 1) \o SubSeq(nodes, i + 1, Len(nodes))
    IN  IF Len(rest) = 0 THEN [h \in (DOMAIN tips) \ {height} |-> tips[h]]
        ELSE [h \in (DOMAIN tips) \cup {height} |-> IF h = height THEN rest ELSE tips[h]]

\* addNode: the map entry, the new tip, the parent no longer a tip.
addNode(idx, tips, node) ==
    LET tips1 == addChainTip(tips, node)
    IN  [index |-> [h \in (DOMAIN idx) \cup {BlockNodes[node].hash} |->
                       IF h = BlockNodes[node].hash THEN node ELSE idx[h]],
         chainTips |-> IF BlockNodes[node].parent # Nil
                       THEN removeChainTip(tips1, BlockNodes[node].parent)
                       ELSE tips1]

\* AddNode: addNode under the write lock.
AddNode(node) ==
    /\ Len(added) < MaxAdds
    /\ LET r == addNode(index, chainTips, node)
       IN  /\ index' = r.index
           /\ chainTips' = r.chainTips
    /\ added' = Append(added, node)
    /\ addOk' = /\ addOk
                /\ BlockNodes[node].hash \notin DOMAIN index
                /\ (BlockNodes[node].parent # Nil => BlockNodes[node].parent \in DOMAIN index)
    /\ UNCHANGED <<status, flagOps, biLast, txVars, dropVars, lockVars, mkVars, genVars>>

\* Bit i (0: lowest) of a status value.
Bit(v, i) == (v \div (2 ^ i)) % 2

\* a | b and a &^ b on blockStatus values, bit by bit.
RECURSIVE BitOr(_, _)
BitOr(a, b) ==
    IF a = 0 /\ b = 0 THEN 0
    ELSE (IF a % 2 = 1 \/ b % 2 = 1 THEN 1 ELSE 0) + 2 * BitOr(a \div 2, b \div 2)

RECURSIVE BitAndNot(_, _)
BitAndNot(a, b) ==
    IF a = 0 THEN 0
    ELSE (IF a % 2 = 1 /\ b % 2 = 0 THEN 1 ELSE 0) + 2 * BitAndNot(a \div 2, b \div 2)

StatusValues == 0..(2 ^ StatusBits - 1)

\* SetStatusFlags storing the flags in place of the status.
SetStatusFlags_Assigns(node, flags) ==
    /\ flagOps < MaxFlagOps
    /\ status' = [status EXCEPT ![node] = flags]
    /\ flagOps' = flagOps + 1
    /\ biLast' = [op |-> "SetStatusFlags", node |-> node, flags |-> flags]
    /\ UNCHANGED <<index, chainTips, added, addOk, txVars, dropVars, lockVars, mkVars, genVars>>

\* SetStatusFlags: node.status |= flags under the write lock.
SetStatusFlags(node, flags) ==
    /\ flagOps < MaxFlagOps
    /\ status' = [status EXCEPT ![node] = BitOr(@, flags)]
    /\ flagOps' = flagOps + 1
    /\ biLast' = [op |-> "SetStatusFlags", node |-> node, flags |-> flags]
    /\ UNCHANGED <<index, chainTips, added, addOk, txVars, dropVars, lockVars, mkVars, genVars>>

\* UnsetStatusFlags: node.status &^= flags under the write lock.
UnsetStatusFlags(node, flags) ==
    /\ flagOps < MaxFlagOps
    /\ status' = [status EXCEPT ![node] = BitAndNot(@, flags)]
    /\ flagOps' = flagOps + 1
    /\ biLast' = [op |-> "UnsetStatusFlags", node |-> node, flags |-> flags]
    /\ UNCHANGED <<index, chainTips, added, addOk, txVars, dropVars, lockVars, mkVars, genVars>>

InitTopology ==
    /\ curBlockID = U32(0)
    /\ committed = EmptyStore
    /\ pending = EmptyStore
    /\ txState = "none"
    /\ calls = 0
    /\ txOk = FALSE
    /\ ret = NoRet
    /\ initPc = "idle"
    /\ highestKnown = U32(0)
    /\ nextUnknown = U32(0)
    /\ testBlockID = U32(0)
    /\ fwdProbes = 0
    /\ binProbes = 0
    /\ dense = 0
    /\ connected = <<>>
    /\ lifoOk = TRUE
    /\ uniqOk = TRUE
    /\ noAbort = TRUE
    /\ snap = NoSnap
    /\ round = FALSE
    /\ DropIdle
    /\ TopologyEmpty
    /\ LockIdle
    /\ MerkleIdle
    /\ GenIdle

NextTopology == \E node \in NodeIDs : AddNode(node)

SpecTopology == InitTopology /\ [][NextTopology]_vars

\* The index after AddNode of each node of the list, in order.
RECURSIVE AfterAdds(_, _, _)
AfterAdds(idx, tips, nodes) ==
    IF nodes = <<>> THEN [index |-> idx, chainTips |-> tips]
    ELSE LET r == addNode(idx, tips, Head(nodes))
         IN  AfterAdds(r.index, r.chainTips, Tail(nodes))

\* The status flag calls, made on an index holding g, its children x and y and
\* x's child c.
InitStatus ==
    /\ curBlockID = U32(0)
    /\ committed = EmptyStore
    /\ pending = EmptyStore
    /\ txState = "none"
    /\ calls = 0
    /\ txOk = FALSE
    /\ ret = NoRet
    /\ initPc = "idle"
    /\ highestKnown = U32(0)
    /\ nextUnknown = U32(0)
    /\ testBlockID = U32(0)
    /\ fwdProbes = 0
    /\ binProbes = 0
    /\ dense = 0
    /\ connected = <<>>
    /\ lifoOk = TRUE
    /\ uniqOk = TRUE
    /\ noAbort = TRUE
    /\ snap = NoSnap
    /\ round = FALSE
    /\ DropIdle
    /\ index = AfterAdds(<<>>, <<>>, <<"g", "x", "y", "c">>).index
    /\ chainTips = AfterAdds(<<>>, <<>>, <<"g", "x", "y", "c">>).chainTips
    /\ status = [n \in NodeIDs |-> 0]
    /\ added = <<"g", "x", "y", "c">>
    /\ addOk = TRUE
    /\ flagOps = 0
    /\ biLast = [op |-> "none", node |-> Nil, flags |-> 0]
    /\ LockIdle
    /\ MerkleIdle
    /\ GenIdle

NextStatus ==
    \/ \E node \in NodeIDs : \E flags \in StatusValues : SetStatusFlags(node, flags)
    \/ \E node \in NodeIDs : \E flags \in StatusValues : UnsetStatusFlags(node, flags)

SpecStatus == InitStatus /\ [][NextStatus]_vars

\* ---------------------------------------------------------------- blockIndex under its lock
\* The public calls of blockIndex run by two threads, one memory access per
\* step, between the Lock/RLock and the Unlock/RUnlock each call makes.

WriteOps == {"AddNode", "SetStatusFlags", "UnsetStatusFlags"}
ReadOps == {"LookupNode", "HaveBlock", "NodeStatus"}

\* Every call taking the read lock.
LockKind_AllRLock(op) == "read"

\* The lock a call takes: bi.Lock() or bi.RLock().
LockKind(op) == IF op \in WriteOps THEN "write" ELSE "read"

\* The position of a call's first access to the shared maps or a node's status.
FirstAccess(op) ==
    CASE op = "AddNode" -> "index"
      [] op \in {"SetStatusFlags", "UnsetStatusFlags"} -> "load"
      [] op \in ReadOps -> "read"

\* The nodes the threads pass: g is in the index from the start.
AddableNodes == {"x", "y"}
FlaggedNodes == {"g", "x"}

\* A thread calls a method of blockIndex.
Call(t, op, node, flags) ==
    /\ thr[t].pc = "idle"
    /\ lockOps < MaxLockOps
    /\ lockOps' = lockOps + 1
    /\ thr' = [thr EXCEPT ![t] = [IdleThread EXCEPT !.pc = "lock", !.op = op,
                                                   !.node = node, !.flags = flags]]
    /\ UNCHANGED <<rw, ghost, biVars, txVars, dropVars, mkVars, genVars>>

\* bi.Lock() / bi.RLock() returning: a writer waits for the lock to be free, a
\* reader for it to have no writer.
LockStep(t) ==
    /\ thr[t].pc = "lock"
    /\ IF LockKind(thr[t].op) = "write"
       THEN /\ rw.writer = Nil /\ rw.readers = {}
            /\ rw' = [rw EXCEPT !.writer = t]
       ELSE /\ rw.writer = Nil
            /\ rw' = [rw EXCEPT !.readers = @ \cup {t}]
    /\ thr' = [thr EXCEPT ![t].pc = FirstAccess(thr[t].op)]
    /\ UNCHANGED <<lockOps, ghost, biVars, txVars, dropVars, mkVars, genVars>>

\* addNode: bi.index[node.hash] = node
AddIndex(t) ==
    /\ thr[t].pc = "index"
    /\ index' = [h \in (DOMAIN index) \cup {BlockNodes[thr[t].node].hash} |->
                    IF h = BlockNodes[thr[t].node].hash THEN thr[t].node ELSE index[h]]
    /\ thr' = [thr EXCEPT ![t].pc = "addTip"]
    /\ UNCHANGED <<chainTips, status, added, addOk, flagOps, biLast,
                   rw, lockOps, ghost, txVars, dropVars, mkVars, genVars>>

\* addNode: bi.addChainTip(node)
AddTip(t) ==
    /\ thr[t].pc = "addTip"
    /\ chainTips' = addChainTip(chainTips, thr[t].node)
    /\ thr' = [thr EXCEPT ![t].pc = "removeTip"]
    /\ UNCHANGED <<index, status, added, addOk, flagOps, biLast,
                   rw, lockOps, ghost, txVars, dropVars, mkVars, genVars>>

\* addNode: bi.removeChainTip(node.parent) when the node has a parent
RemoveTip(t) ==
    /\ thr[t].pc = "removeTip"
    /\ chainTips' = IF BlockNodes[thr[t].node].parent # Nil
                    THEN removeChainTip(chainTips, BlockNodes[thr[t].node].parent)
                    ELSE chainTips
    /\ thr' = [thr EXCEPT ![t].pc = "unlock"]
    /\ UNCHANGED <<index, status, added, addOk, flagOps, biLast,
                   rw, lockOps, ghost, txVars, dropVars, mkVars, genVars>>

\* node.status |= flags, node.status &^= flags: the read of node.status
LoadStatus(t) ==
    /\ thr[t].pc = "load"
    /\ thr' = [thr EXCEPT ![t].tmp = status[thr[t].node], ![t].pc = "store"]
    /\ UNCHANGED <<rw, lockOps, ghost, biVars, txVars, dropVars, mkVars, genVars>>

\* node.status |= flags, node.status &^= flags: the write of node.status
StoreStatus(t) ==
    /\ thr[t].pc = "store"
    /\ status' = [status EXCEPT ![thr[t].node] =
                     IF thr[t].op = "SetStatusFlags" THEN BitOr(thr[t].tmp, thr[t].flags)
                     ELSE BitAndNot(thr[t].tmp, thr[t].flags)]
    /\ thr' = [thr EXCEPT ![t].pc = "unlock"]
    /\ UNCHANGED <<index, chainTips, added, addOk, flagOps, biLast,
                   rw, lockOps, ghost, txVars, dropVars, mkVars, genVars>>

\* The read of LookupNode (bi.index[*hash]), HaveBlock and NodeStatus.
ReadStep(t) ==
    /\ thr[t].pc = "read"
    /\ LET hash == BlockNodes[thr[t].node].hash
           has == hash \in DOMAIN index
       IN  thr' = [thr EXCEPT
                     ![t].pc = "unlock",
                     ![t].tmp = IF thr[t].op = "NodeStatus" THEN status[thr[t].node] ELSE 0,
                     ![t].res = CASE thr[t].op = "LookupNode" -> IF has THEN index[hash] ELSE Nil
                                  [] thr[t].op = "HaveBlock" -> IF has THEN "true" ELSE "false"
                                  [] OTHER -> Nil]
    /\ UNCHANGED <<rw, lockOps, ghost, biVars, txVars, dropVars, mkVars, genVars>>

\* The shared state after the call took effect in one piece.
Effect(g, op, node, flags) ==
    CASE op = "AddNode" ->
            [g EXCEPT !.index = addNode(g.index, g.chainTips, node).index,
                      !.chainTips = addNode(g.index, g.chainTips, node).chainTips]
      [] op = "SetStatusFlags" -> [g EXCEPT !.status[node] = BitOr(@, flags)]
      [] op = "UnsetStatusFlags" -> [g EXCEPT !.status[node] = BitAndNot(@, flags)]
      [] OTHER -> g

\* bi.Unlock() / bi.RUnlock(); the call returns.
UnlockStep(t) ==
    /\ thr[t].pc = "unlock"
    /\ rw' = IF rw.writer = t THEN [rw EXCEPT !.writer = Nil]
             ELSE [rw EXCEPT !.readers = @ \ {t}]
    /\ ghost' = Effect(ghost, thr[t].op, thr[t].node, thr[t].flags)
    /\ thr' = [thr EXCEPT ![t] = IdleThread]
    /\ UNCHANGED <<lockOps, biVars, txVars, dropVars, mkVars, genVars>>

\* Two threads on an index that holds the genesis node.
InitLock ==
    /\ curBlockID = U32(0)
    /\ committed = EmptyStore
    /\ pending = EmptyStore
    /\ txState = "none"
    /\ calls = 0
    /\ txOk = FALSE
    /\ ret = NoRet
    /\ initPc = "idle"
    /\ highestKnown = U32(0)
    /\ nextUnknown = U32(0)
    /\ testBlockID = U32(0)
    /\ fwdProbes = 0
    /\ binProbes = 0
    /\ dense = 0
    /\ connected = <<>>
    /\ lifoOk = TRUE
    /\ uniqOk = TRUE
    /\ noAbort = TRUE
    /\ snap = NoSnap
    /\ round = FALSE
    /\ DropIdle
    /\ index = AfterAdds(<<>>, <<>>, <<"g">>).index
    /\ chainTips = AfterAdds(<<>>, <<>>, <<"g">>).chainTips
    /\ status = [n \in NodeIDs |-> 0]
    /\ added = <<"g">>
    /\ addOk = TRUE
    /\ flagOps = 0
    /\ biLast = [op |-> "none", node |-> Nil, flags |-> 0]
    /\ rw = [writer |-> Nil, readers |-> {}]
    /\ thr = [t \in Threads |-> IdleThread]
    /\ lockOps = 0
    /\ ghost = [index |-> index, chainTips |-> chainTips, status |-> status]
    /\ MerkleIdle
    /\ GenIdle

NextLock ==
    \/ \E t \in Threads : \E node \in AddableNodes : Call(t, "AddNode", node, 0)
    \/ \E t \in Threads : \E op \in ReadOps : \E node \in FlaggedNodes : Call(t, op, node, 0)
    \/ \E t \in Threads : \E op \in {"SetStatusFlags", "UnsetStatusFlags"} :
          \E node \in FlaggedNodes : \E flags \in StatusValues : Call(t, op, node, flags)
    \/ \E t \in Threads : LockStep(t)
    \/ \E t \in Threads : AddIndex(t)
    \/ \E t \in Threads : AddTip(t)
    \/ \E t \in Threads : RemoveTip(t)
    \/ \E t \in Threads : LoadStatus(t)
    \/ \E t \in Threads : StoreStatus(t)
    \/ \E t \in Threads : ReadStep(t)
    \/ \E t \in Threads : UnlockStep(t)

SpecLock == InitLock /\ [][NextLock]_vars

\* ---------------------------------------------------------------- merkle

RECURSIVE BitAnd(_, _)
\* a & b of non-negative ints
BitAnd(a, b) ==
    IF a = 0 \/ b = 0 THEN 0
    ELSE (a % 2) * (b % 2) + 2 * BitAnd(a \div 2, b \div 2)

RECURSIVE Log2Floor(_)
\* uint(math.Log2(float64(n))): float64(n) is exact for n below 2^53, and the
\* truncated logarithm of the arguments modelled here is the position of the
\* highest 1 bit.
Log2Floor(n) == IF n < 2 THEN 0 ELSE 1 + Log2Floor(n \div 2)

\* Never returning the argument itself.
nextPowerOfTwo_AlwaysNext(n) == 2 ^ (Log2Floor(n) + 1)

\* Returning the argument.
nextPowerOfTwo_Identity(n) == n

\* nextPowerOfTwo(n int) int
nextPowerOfTwo(n) ==
    IF BitAnd(n, n - 1) = 0 THEN n
    ELSE 2 ^ (Log2Floor(n) + 1)

\* A call of nextPowerOfTwo.
NextPowerOfTwoOp ==
    /\ powOut = 0
    /\ powOut' = nextPowerOfTwo(powIn)
    /\ UNCHANGED <<transactions, witness, other, others, merkles, merklesOther, powIn, blk, verdict,
                   txVars, dropVars, biVars, lockVars, genVars>>

InitPow ==
    /\ curBlockID = U32(0)
    /\ committed = EmptyStore
    /\ pending = EmptyStore
    /\ txState = "none"
    /\ calls = 0
    /\ txOk = FALSE
    /\ ret = NoRet
    /\ initPc = "idle"
    /\ highestKnown = U32(0)
    /\ nextUnknown = U32(0)
    /\ testBlockID = U32(0)
    /\ fwdProbes = 0
    /\ binProbes = 0
    /\ dense = 0
    /\ connected = <<>>
    /\ lifoOk = TRUE
    /\ uniqOk = TRUE
    /\ noAbort = TRUE
    /\ snap = NoSnap
    /\ round = FALSE
    /\ DropIdle
    /\ TopologyEmpty
    /\ LockIdle
    /\ transactions = <<>>
    /\ witness = FALSE
    /\ other = 0
    /\ others = <<>>
    /\ merkles = <<>>
    /\ merklesOther = <<>>
    /\ powIn \in 1..MaxPowIn
    /\ powOut = 0
    /\ blk = NoBlock
    /\ verdict = NoVerdict
    /\ GenIdle

NextPow == NextPowerOfTwoOp

SpecPow == InitPow /\ [][NextPow]_vars

\* The transactions of the lists, by number.
TxIDs == {1, 2, 3}

\* The lists of up to k transactions.
TxLists(k) == UNION {[1..len -> TxIDs] : len \in 0..k}

\* HashMerkleBranches(left, right): the hash of the two hashes concatenated.
HashMerkleBranches(left, right) == DoubleHashH(left, right)

\* Every leaf the transaction's plain hash, in either mode.
LeafHash_NoPlaceholder(tx, i, w) == TxHash(tx)

\* The switch of the first loop: the hash put in slot i for transaction tx.
LeafHash(tx, i, w) ==
    CASE w /\ i = 0 -> ZeroHash
      [] w -> TxHashFull(tx)
      [] OTHER -> TxHash(tx)

RECURSIVE MerkleLoop_NoDuplicate(_, _, _, _)
\* The second loop with a lone left child passed up as it is.
MerkleLoop_NoDuplicate(m, i, offset, arraySize) ==
    IF ~(i < arraySize - 1) THEN m
    ELSE LET parent == CASE m[i + 1] = NoHash -> NoHash
                         [] m[i + 2] = NoHash -> m[i + 1]
                         [] OTHER -> HashMerkleBranches(m[i + 1], m[i + 2])
         IN  MerkleLoop_NoDuplicate([m EXCEPT ![offset + 1] = parent], i + 2, offset + 1, arraySize)

RECURSIVE MerkleLoop_NilRight(_, _, _, _)
\* The second loop with no parent for a lone left child.
MerkleLoop_NilRight(m, i, offset, arraySize) ==
    IF ~(i < arraySize - 1) THEN m
    ELSE LET parent == CASE m[i + 1] = NoHash -> NoHash
                         [] m[i + 2] = NoHash -> NoHash
                         [] OTHER -> HashMerkleBranches(m[i + 1], m[i + 2])
         IN  MerkleLoop_NilRight([m EXCEPT ![offset + 1] = parent], i + 2, offset + 1, arraySize)

RECURSIVE MerkleLoop(_, _, _, _)
\* The second loop of BuildMerkleTreeStore from its index i on; slot k of the
\* Go slice is m[k + 1].
MerkleLoop(m, i, offset, arraySize) ==
    IF ~(i < arraySize - 1) THEN m
    ELSE LET parent == CASE m[i + 1] = NoHash -> NoHash
                         [] m[i + 2] = NoHash -> HashMerkleBranches(m[i + 1], m[i + 1])
                         [] OTHER -> HashMerkleBranches(m[i + 1], m[i + 2])
         IN  MerkleLoop([m EXCEPT ![offset + 1] = parent], i + 2, offset + 1, arraySize)

\* BuildMerkleTreeStore(transactions []*types.Tx, witness bool) []*hash.Hash
BuildMerkleTreeStore(txs, w) ==
    IF Len(txs) = 0 THEN <<ZeroHash>>
    ELSE LET nextPoT == nextPowerOfTwo(Len(txs))
             arraySize == nextPoT * 2 - 1
             leaves == [k \in 1..arraySize |->
                           IF k <= Len(txs) THEN LeafHash(txs[k], k - 1, w) ELSE NoHash]
         IN  MerkleLoop(leaves, 0, nextPoT, arraySize)

\* calcMerkleRoot(txns []*types.Transaction) hash.Hash
calcMerkleRoot(txns) ==
    LET m == BuildMerkleTreeStore(txns, FALSE) IN m[Len(m)]

\* A call of BuildMerkleTreeStore.
Build ==
    /\ merkles = <<>>
    /\ merkles' = BuildMerkleTreeStore(transactions, witness)
    /\ UNCHANGED <<transactions, witness, other, others, merklesOther, powIn, powOut, blk, verdict,
                   txVars, dropVars, biVars, lockVars, genVars>>

\* A call of BuildMerkleTreeStore on the list with another first transaction.
BuildOther ==
    /\ merklesOther = <<>>
    /\ transactions # <<>>
    /\ merklesOther' = BuildMerkleTreeStore(<<other>> \o Tail(transactions), witness)
    /\ UNCHANGED <<transactions, witness, other, others, merkles, powIn, powOut, blk, verdict,
                   txVars, dropVars, biVars, lockVars, genVars>>

InitMerkle ==
    /\ curBlockID = U32(0)
    /\ committed = EmptyStore
    /\ pending = EmptyStore
    /\ txState = "none"
    /\ calls = 0
    /\ txOk = FALSE
    /\ ret = NoRet
    /\ initPc = "idle"
    /\ highestKnown = U32(0)
    /\ nextUnknown = U32(0)
    /\ testBlockID = U32(0)
    /\ fwdProbes = 0
    /\ binProbes = 0
    /\ dense = 0
    /\ connected = <<>>
    /\ lifoOk = TRUE
    /\ uniqOk = TRUE
    /\ noAbort = TRUE
    /\ snap = NoSnap
    /\ round = FALSE
    /\ DropIdle
    /\ TopologyEmpty
    /\ LockIdle
    /\ transactions \in TxLists(MaxTxs)
    /\ witness \in BOOLEAN
    /\ other \in TxIDs
    /\ others = <<>>
    /\ merkles = <<>>
    /\ merklesOther = <<>>
    /\ powIn = 0
    /\ powOut = 0
    /\ blk = NoBlock
    /\ verdict = NoVerdict
    /\ GenIdle

NextMerkle ==
    \/ Build
    \/ BuildOther

SpecMerkle == InitMerkle /\ [][NextMerkle]_vars

\* A call of BuildMerkleTreeStore on the second list.
BuildSecond ==
    /\ merklesOther = <<>>
    /\ others # <<>>
    /\ merklesOther' = BuildMerkleTreeStore(others, witness)
    /\ UNCHANGED <<transactions, witness, other, others, merkles, powIn, powOut, blk, verdict,
                   txVars, dropVars, biVars, lockVars, genVars>>

\* Two non-empty lists.
InitRoots ==
    /\ curBlockID = U32(0)
    /\ committed = EmptyStore
    /\ pending = EmptyStore
    /\ txState = "none"
    /\ calls = 0
    /\ txOk = FALSE
    /\ ret = NoRet
    /\ initPc = "idle"
    /\ highestKnown = U32(0)
    /\ nextUnknown = U32(0)
    /\ testBlockID = U32(0)
    /\ fwdProbes = 0
    /\ binProbes = 0
    /\ dense = 0
    /\ connected = <<>>
    /\ lifoOk = TRUE
    /\ uniqOk = TRUE
    /\ noAbort = TRUE
    /\ snap = NoSnap
    /\ round = FALSE
    /\ DropIdle
    /\ TopologyEmpty
    /\ LockIdle
    /\ transactions \in TxLists(MaxRootTxs) \ {<<>>}
    /\ witness \in BOOLEAN
    /\ other = 0
    /\ others \in TxLists(MaxRootTxs) \ {<<>>}
    /\ merkles = <<>>
    /\ merklesOther = <<>>
    /\ powIn = 0
    /\ powOut = 0
    /\ blk = NoBlock
    /\ verdict = NoVerdict
    /\ GenIdle

NextRoots ==
    \/ Build
    \/ BuildSecond

SpecRoots == InitRoots /\ [][NextRoots]_vars

\* The SignScript values of the coinbase's first input.
Scripts == {<<"script", 1>>, <<"script", 2>>}

\* The root of the witness-mode tree of a list.
WitnessRoot(txs) == LET m == BuildMerkleTreeStore(txs, TRUE) IN m[Len(m)]

\* The values of TxIn[0].PreviousOut.Hash of the blocks: none, a commitment
\* to some list's witness root, and a hash over some list's plain root.
Commitments ==
    {ZeroHash}
    \cup {DoubleHashH(WitnessRoot(l), sc) : l \in TxLists(MaxBlockTxs) \ {<<>>}, sc \in Scripts}
    \cup {DoubleHashH(calcMerkleRoot(l), sc) : l \in TxLists(MaxBlockTxs) \ {<<>>}, sc \in Scripts}

Verdict(kind, computed, embedded) == [kind |-> kind, computed |-> computed, embedded |-> embedded]

\* The commitment compared with a hash over the plain root.
ValidateWitnessCommitment_PlainRoot(b) ==
    IF Len(b.transactions) = 0 THEN Verdict("no transactions", NoHash, NoHash)
    ELSE IF b.txIn = 0 THEN Verdict("no inputs", NoHash, NoHash)
    ELSE IF b.commitment = ZeroHash THEN Verdict("no commitment", NoHash, NoHash)
    ELSE LET computedCommitment == DoubleHashH(calcMerkleRoot(b.transactions), b.signScript)
         IN  IF computedCommitment # b.commitment
             THEN Verdict("mismatch", computedCommitment, b.commitment)
             ELSE Verdict("nil", NoHash, NoHash)

\* ValidateWitnessCommitment(blk *types.SerializedBlock) error: the error by
\* kind, with the two hashes its text holds.
ValidateWitnessCommitment(b) ==
    IF Len(b.transactions) = 0 THEN Verdict("no transactions", NoHash, NoHash)
    ELSE IF b.txIn = 0 THEN Verdict("no inputs", NoHash, NoHash)
    ELSE IF b.commitment = ZeroHash THEN Verdict("no commitment", NoHash, NoHash)
    ELSE LET witnessMerkleTree == BuildMerkleTreeStore(b.transactions, TRUE)
             witnessMerkleRoot == witnessMerkleTree[Len(witnessMerkleTree)]
             computedCommitment == DoubleHashH(witnessMerkleRoot, b.signScript)
         IN  IF computedCommitment # b.commitment
             THEN Verdict("mismatch", computedCommitment, b.commitment)
             ELSE Verdict("nil", NoHash, NoHash)

\* A call of ValidateWitnessCommitment.
Validate ==
    /\ verdict = NoVerdict
    /\ GenIdle
    /\ verdict' = ValidateWitnessCommitment(blk)
    /\ UNCHANGED <<transactions, witness, other, others, merkles, merklesOther, powIn, powOut, blk,
                   txVars, dropVars, biVars, lockVars, genVars>>

InitWitness ==
    /\ curBlockID = U32(0)
    /\ committed = EmptyStore
    /\ pending = EmptyStore
    /\ txState = "none"
    /\ calls = 0
    /\ txOk = FALSE
    /\ ret = NoRet
    /\ initPc = "idle"
    /\ highestKnown = U32(0)
    /\ nextUnknown = U32(0)
    /\ testBlockID = U32(0)
    /\ fwdProbes = 0
    /\ binProbes = 0
    /\ dense = 0
    /\ connected = <<>>
    /\ lifoOk = TRUE
    /\ uniqOk = TRUE
    /\ noAbort = TRUE
    /\ snap = NoSnap
    /\ round = FALSE
    /\ DropIdle
    /\ TopologyEmpty
    /\ LockIdle
    /\ transactions = <<>>
    /\ witness = FALSE
    /\ other = 0
    /\ others = <<>>
    /\ merkles = <<>>
    /\ merklesOther = <<>>
    /\ powIn = 0
    /\ powOut = 0
    /\ blk \in [transactions : TxLists(MaxBlockTxs), txIn : 0..1,
                commitment : Commitments, signScript : Scripts]
    /\ verdict = NoVerdict
    /\ GenIdle

NextWitness == Validate

SpecWitness == InitWitness /\ [][NextWitness]_vars

\* ---------------------------------------------------------------- miner API

\* The numbers of blocks Generate is asked for.
GenerateArgs == {0, 1, 2, 3, 3000, 3001}

\* The most blocks one call may ask for.
GenerateLimit == 3000

\* blockHash.String() of a mined block.
MinedHash == "hash"

GenReturn(r, err) == [reply |-> r, err |-> err]

\* Generate up to its loop: the two tests of numBlocks, make([]string,
\* numBlocks), and CPUMiningGenerate, which starts the miner or returns an
\* error.
Generate(n, startFails) ==
    /\ genPc = "idle"
    /\ numBlocks' = n
    /\ IF n = 0
       THEN /\ genRet' = GenReturn(<<>>, "Invalid number of blocks")
            /\ genPc' = "done"
            /\ UNCHANGED <<reply, miner>>
       ELSE IF n > GenerateLimit
       THEN /\ genRet' = GenReturn(<<>>, "error, more than 1000")
            /\ genPc' = "done"
            /\ UNCHANGED <<reply, miner>>
       ELSE IF startFails
       THEN /\ genRet' = GenReturn(<<>>, "CPUMiningGenerate")
            /\ genPc' = "done"
            /\ reply' = [k \in 1..n |-> ""]
            /\ UNCHANGED miner
       ELSE /\ genPc' = "loop"
            /\ reply' = [k \in 1..n |-> ""]
            /\ miner' = "mining"
            /\ UNCHANGED genRet
    /\ genI' = 0
    /\ UNCHANGED <<txVars, dropVars, biVars, lockVars, mkVars>>

\* One pass of the loop: i < numBlocks, then the select receives what the
\* miner sends on blockHashC.  A nil hash takes the break, which leaves the
\* select; the pass ends with i++ either way.  After a nil hash the miner
\* sends nothing more.
Receive(isNil) ==
    /\ genPc = "loop"
    /\ genI < numBlocks
    /\ miner = "mining"
    /\ IF isNil
       THEN /\ miner' = "stopped"
            /\ UNCHANGED reply
       ELSE /\ reply' = [reply EXCEPT ![genI + 1] = MinedHash]
            /\ UNCHANGED miner
    /\ genI' = genI + 1
    /\ UNCHANGED <<genPc, numBlocks, genRet>>
    /\ UNCHANGED <<txVars, dropVars, biVars, lockVars, mkVars>>

\* The loop ends at i = numBlocks: return reply, nil.
GenerateReturn ==
    /\ genPc = "loop"
    /\ ~(genI < numBlocks)
    /\ genPc' = "done"
    /\ genRet' = GenReturn(reply, "nil")
    /\ UNCHANGED <<numBlocks, genI, reply, miner>>
    /\ UNCHANGED <<txVars, dropVars, biVars, lockVars, mkVars>>

InitGenerate ==
    /\ curBlockID = U32(0)
    /\ committed = EmptyStore
    /\ pending = EmptyStore
    /\ txState = "none"
    /\ calls = 0
    /\ txOk = FALSE
    /\ ret = NoRet
    /\ initPc = "idle"
    /\ highestKnown = U32(0)
    /\ nextUnknown = U32(0)
    /\ testBlockID = U32(0)
    /\ fwdProbes = 0
    /\ binProbes = 0
    /\ dense = 0
    /\ connected = <<>>
    /\ lifoOk = TRUE
    /\ uniqOk = TRUE
    /\ noAbort = TRUE
    /\ snap = NoSnap
    /\ round = FALSE
    /\ DropIdle
    /\ TopologyEmpty
    /\ LockIdle
    /\ MerkleIdle
    /\ GenIdle

GenerateRuns ==
    \/ \E isNil \in BOOLEAN : Receive(isNil)
    \/ GenerateReturn

NextGenerate ==
    \/ \E n \in GenerateArgs : \E startFails \in BOOLEAN : Generate(n, startFails)
    \/ GenerateRuns

SpecGenerate == InitGenerate /\ [][NextGenerate]_vars

\* Generate takes its next step whenever it can, and the miner, while it is
\* mining, delivers its next result.
SpecGenerateFair == SpecGenerate /\ WF_vars(GenerateRuns)

\* ---------------------------------------------------------------- claims: locators

\* The locators that are keys of the id->hash bucket.
LocatorKeys(s) == {Uint32(k) : k \in DOMAIN s.hashByID}

\* The hash->id entries whose id->hash pair is missing or names another hash.
UnpairedHashes(s) ==
    {h \in DOMAIN s.idByHash :
        BucketGet(s.hashByID, s.idByHash[h]) # [present |-> TRUE, bytes |-> h]}

UnpairedIDs(s) ==
    {k \in DOMAIN s.hashByID :
        BucketGet(s.idByHash, s.hashByID[k]) # [present |-> TRUE, bytes |-> k]}

Inverse(s) == UnpairedHashes(s) = {} /\ UnpairedIDs(s) = {}

\* The highest locator of the id->hash bucket, 0 when it has none.
HighestLocator(s) ==
    IF LocatorKeys(s) = {} THEN U32(0)
    ELSE CHOOSE k \in LocatorKeys(s) : \A j \in LocatorKeys(s) : U32LessEq(j, k)

\* The state is what the successful calls made so far wrote: no call of the
\* open transaction has failed, no transaction holding a successful call was
\* rolled back.
CallsOnly == noAbort /\ txState # "failed"

C2_InverseAfterAnyCalls == CallsOnly => Inverse(View)

\* C2 amended: after successful ConnectBlock calls, none of a block whose hash
\* is indexed at the time, and successful DisconnectBlock calls, each of the
\* most recently connected block, the two buckets are inverses of each other.
C2_InverseUnderContract == (CallsOnly /\ lifoOk /\ uniqOk) => Inverse(View)

\* C2 witness: two blocks connected, the second disconnected, one pair left.
C2_Witness ==
    /\ CallsOnly /\ lifoOk /\ uniqOk
    /\ ret.op = "DisconnectBlock" /\ ret.err = NoErr
    /\ Cardinality(DOMAIN View.idByHash) = 1
    /\ Cardinality(DOMAIN View.hashByID) = 1

\* ---------------------------------------------------------------- claims: round trip

BlockOf(h) == CHOOSE b \in Blocks : b.hash = h

\* The block is new to the store s with counter cur: its hash is not indexed,
\* the locator it would get is not in use, its transaction hashes are pairwise
\* different and none of them has an entry.
NewTo(block, s, cur) ==
    /\ block.hash \notin DOMAIN s.idByHash
    /\ PutUint32(U32Add(cur, U32(1))) \notin DOMAIN s.hashByID
    /\ \A i \in DOMAIN block.txns : block.txns[i] \notin DOMAIN s.txIndex
    /\ \A i, j \in DOMAIN block.txns : i # j => block.txns[i] # block.txns[j]

\* The counter and the three buckets are as they were before the ConnectBlock.
Restored == ret.err = NoErr /\ curBlockID = snap.cur /\ View = snap.store

\* C3 as claimed: ConnectBlock(B) immediately followed by DisconnectBlock(B)
\* succeeds and restores the counter and the three buckets, for every B.
C3_RoundTripAnyBlock == round => Restored

\* C3 amended: the same for every B that is new to the index: hash not indexed,
\* next locator unused, transaction hashes pairwise different and not indexed.
C3_RoundTripNewBlock ==
    (round /\ NewTo(BlockOf(snap.block), snap.store, snap.cur)) => Restored

\* C3 witness: such a round trip on top of a non-empty index.
C3_Witness ==
    /\ round
    /\ NewTo(BlockOf(snap.block), snap.store, snap.cur)
    /\ snap.store # EmptyStore
    /\ ret.op = "DisconnectBlock" /\ ret.err = NoErr

\* ---------------------------------------------------------------- claims: failure, atomicity

\* C4: a ConnectBlock that returns an error leaves the counter as it was, and
\* when its transaction has ended the committed store holds no hash->id entry
\* without its pair that was not there before.
C4_FailedConnectBlock ==
    [][/\ (calls' = calls + 1 /\ ret'.op = "ConnectBlock" /\ ret'.err # NoErr)
            => (curBlockID' = curBlockID /\ txState' = "failed")
       /\ (txState = "failed" /\ txState' = "none")
            => UnpairedHashes(committed') \subseteq UnpairedHashes(committed)]_vars

\* C4 witness: ConnectBlock failed at the id->hash put, after the hash->id put.
C4_Witness ==
    /\ txState = "failed"
    /\ ret.op = "ConnectBlock" /\ ret.err = ErrPut
    /\ ret.arg \in UnpairedHashes(pending)

\* C5: when a transaction that held a successful ConnectBlock or DisconnectBlock
\* has ended, by commit or by rollback, the counter is the highest locator of the
\* committed id->hash bucket.  Stated for callers that connect no indexed hash
\* and disconnect the most recently connected block only.
C5_CounterFollowsCommit ==
    (txState = "none" /\ txOk /\ ret.op \in {"ConnectBlock", "DisconnectBlock"}
        /\ lifoOk /\ uniqOk)
        => curBlockID = HighestLocator(committed)

\* C7: when Init's first probe finds nothing, Init has returned after that one
\* probe and the counter is 0, whatever it was before.  Stated for callers that
\* connect no indexed hash and disconnect the most recently connected block only.
C7_EmptyStoreCounterZero ==
    (ret.op = "Init" /\ nextUnknown = U32(1) /\ lifoOk /\ uniqOk)
        => (fwdProbes = 1 /\ binProbes = 0 /\ curBlockID = U32(0))

\* ---------------------------------------------------------------- claims: lookup

\* C9: TxBlockRegion of a hash with no key in the tx index returns no region and
\* no error, and leaves the counter and the store as they were.
C9_AbsentIsEmptyResult ==
    [][(ret'.op = "TxBlockRegion" /\ ret'.arg \notin DOMAIN committed.txIndex)
          => /\ ret'.err = NoErr
             /\ ret'.region = NoRegion
             /\ UNCHANGED <<curBlockID, committed, pending>>]_vars

\* C9 witness: such a lookup on an index that holds other entries.
C9_Witness ==
    /\ ret.op = "TxBlockRegion"
    /\ ret.arg \notin DOMAIN committed.txIndex
    /\ DOMAIN committed.txIndex # {}

\* The record stored under h is shorter than an entry, or names a locator that
\* has no id->hash entry.
Damaged(s, h) ==
    /\ h \in DOMAIN s.txIndex
    /\ \/ Len(s.txIndex[h]) < txEntrySize
       \/ SubSeq(s.txIndex[h], 1, 4) \notin DOMAIN s.hashByID

\* C10: TxBlockRegion of a hash whose record has 0 to 11 bytes, or names a
\* locator without id->hash entry, returns a corruption error naming the hash.
C10_DamagedIsCorruption ==
    (ret.op = "TxBlockRegion" /\ Damaged(committed, ret.arg))
        => (ret.err = ErrCorruption(ret.arg) /\ ret.region = NoRegion)

\* ---------------------------------------------------------------- claims: most recent occurrence

\* The positions of transaction hash t in the block.
Positions(block, t) == {i \in DOMAIN block.txns : block.txns[i] = t}

LastPosition(block, t) ==
    CHOOSE i \in Positions(block, t) : \A j \in Positions(block, t) : j <= i

\* The connected blocks that hold t, as positions of `connected` (1: the most
\* recently connected).
Holders(t) == {i \in DOMAIN connected : Positions(BlockOf(connected[i]), t) # {}}

\* Every call made so far was a successful ConnectBlock whose transaction was
\* not rolled back.
ConnectsOnly == lifoOk /\ noAbort /\ calls = Len(connected)

\* The region of the last occurrence of t in the block.
RegionIn(block, t) ==
    [Hash |-> block.hash,
     Offset |-> U32(block.txLocs[LastPosition(block, t)].TxStart),
     Len |-> U32(block.txLocs[LastPosition(block, t)].TxLen)]

\* C11: after successful ConnectBlock calls only, TxBlockRegion(T) of a hash T
\* held by some connected block returns, without error, the hash of the most
\* recently connected block holding T with T's offset and length in that block;
\* the tx index holds that one entry for T and no entry of an earlier block.
C11_MostRecentOccurrence ==
    (ret.op = "TxBlockRegion" /\ ConnectsOnly /\ Holders(ret.arg) # {}) =>
        LET latest == BlockOf(connected[CHOOSE i \in Holders(ret.arg) :
                                           \A j \in Holders(ret.arg) : i <= j])
        IN  /\ ret.err = NoErr
            /\ ret.region = RegionIn(latest, ret.arg)
            /\ committed.txIndex[ret.arg] =
                   putTxIndexEntry(Uint32(committed.idByHash[latest.hash]),
                                   latest.txLocs[LastPosition(latest, ret.arg)])

\* C11 witness: two different blocks holding T were connected, then T looked up,
\* and the two blocks place T differently.
C11_Witness ==
    /\ ret.op = "TxBlockRegion" /\ ConnectsOnly
    /\ Cardinality(Holders(ret.arg)) = 2
    /\ connected[1] # connected[2]
    /\ RegionIn(BlockOf(connected[1]), ret.arg).Len # RegionIn(BlockOf(connected[2]), ret.arg).Len

\* ---------------------------------------------------------------- claims: DisconnectBlock errors

\* Some transaction of the block has no entry in s when DisconnectBlock comes to
\* it: its hash has no key, or an earlier transaction of the block had the same
\* hash and its removal took the key.
MissingWhenProcessed(block, s) ==
    \E i \in DOMAIN block.txns :
        block.txns[i] \notin (DOMAIN s.txIndex) \ {block.txns[j] : j \in 1..(i - 1)}

\* The hash->id and id->hash entries of the store.
Locators(s) == <<s.idByHash, s.hashByID>>

\* C12: a DisconnectBlock(B) made when some transaction of B has no tx-index
\* entry at the moment it is processed returns an error, leaves the counter as it
\* was and leaves the hash->id and id->hash buckets as they were.
C12_MissingEntryFailsDisconnect ==
    [][(calls' = calls + 1 /\ ret'.op = "DisconnectBlock"
          /\ MissingWhenProcessed(BlockOf(ret'.arg), pending))
          => /\ ret'.err # NoErr
             /\ txState' = "failed"
             /\ curBlockID' = curBlockID
             /\ Locators(pending') = Locators(pending)]_vars

\* C12 witness: DisconnectBlock of an indexed block failed on a transaction
\* whose entry was gone; the block is still indexed and the counter is not 0.
C12_Witness ==
    /\ ret.op = "DisconnectBlock"
    /\ ret.err.code = "non-existent"
    /\ ret.arg \in DOMAIN pending.idByHash
    /\ curBlockID # U32(0)

\* C13: a DisconnectBlock of a block whose hash has no hash->id entry, or of an
\* indexed block that is not the most recently connected one, returns an error
\* and leaves the counter as it was.  Stated for callers that kept the contract
\* up to this call.
C13_UsageViolationIsError ==
    [][(calls' = calls + 1 /\ ret'.op = "DisconnectBlock"
          /\ lifoOk /\ uniqOk /\ noAbort
          /\ \/ ret'.arg \notin DOMAIN pending.idByHash
             \/ (connected # <<>> /\ Head(connected) # ret'.arg))
          => (ret'.err # NoErr /\ curBlockID' = curBlockID)]_vars

\* C31: a DisconnectBlock called while the counter is 0 returns an error and
\* leaves the counter 0, so that no sequence of calls takes the counter from 0
\* to 2^32-1.
C31_CounterNeverWraps ==
    [][(calls' = calls + 1 /\ ret'.op = "DisconnectBlock" /\ curBlockID = U32(0))
          => (ret'.err # NoErr /\ curBlockID' = U32(0))]_vars

\* Every entry of the tx index of store s is a whole entry whose locator has
\* an id->hash entry, the lookup of its key returns no error, and the block
\* the returned region names has a hash->id entry.
EntriesResolve(s) ==
    \A t \in DOMAIN s.txIndex :
        /\ Len(s.txIndex[t]) = txEntrySize
        /\ SubSeq(s.txIndex[t], 1, 4) \in DOMAIN s.hashByID
        /\ dbFetchTxIndexEntry(s, t).err = NoErr
        /\ dbFetchTxIndexEntry(s, t).region.Hash \in DOMAIN s.idByHash

\* C32: as long as every call returned success, every DisconnectBlock was of
\* the most recently connected block and no transaction was rolled back, every
\* tx entry of the committed store and of the open transaction carries a
\* locator that has an id->hash entry, so that a lookup of any held key returns
\* the region of a currently indexed block, and no TxBlockRegion has returned a
\* corruption error.
C32_EntriesResolve ==
    (lifoOk /\ noAbort /\ txState # "failed") =>
        /\ EntriesResolve(committed)
        /\ EntriesResolve(pending)
        /\ ret.op = "TxBlockRegion" => ret.err = NoErr

\* C32 witness: two blocks sharing a transaction were connected, the later one
\* was disconnected and the transaction committed: the earlier block's other
\* entry is still held and resolves, and it has been looked up.
C32_Witness ==
    /\ lifoOk /\ noAbort /\ txState = "none"
    /\ calls = 3
    /\ connected = <<"hA">>
    /\ DOMAIN committed.txIndex = {"t1"}
    /\ ret.op = "TxBlockRegion" /\ ret.arg = "t1"
    /\ ret.region.Hash = "hA"

\* ---------------------------------------------------------------- claims: DropTxIndex

\* The step deletes index data: tx entries, a bucket, the dependent index or
\* the tip.
DeletesData ==
    \/ \E b \in BucketNames : ds'[b] < ds[b]
    \/ (ds.addr /\ ~ds'.addr)
    \/ (ds.tip /\ ~ds'.tip)

RemovesLocators ==
    \/ (ds.idByHash # Absent /\ ds'.idByHash = Absent)
    \/ (ds.hashByID # Absent /\ ds'.hashByID = Absent)

\* C14: in every run of DropTxIndex on an existing index a step deletes index
\* data only when the committed store holds the marker; the two locator buckets
\* are removed only when no tx entry is left; the tip and the index bucket are
\* removed only when the locator buckets are gone; and the marker is cleared by
\* the last write of the transaction that leaves nothing else behind.
C14_DropOrder ==
    [][/\ DeletesData => ds.marker
       /\ RemovesLocators => ds.tx = 0
       /\ (ds.tip /\ ~ds'.tip) => (ds.idByHash = Absent /\ ds.hashByID = Absent)
       /\ (ds.marker /\ ~ds'.marker)
            => /\ ds' = NoStore
               /\ lastTx'.writes[Len(lastTx'.writes)] = "delete marker"]_vars

\* C14 witness: a run that met no failure, interrupt or stop has
\* returned nil from its last step.
C14_Witness ==
    /\ dropRet.op = "Drop" /\ dropRet.code = "nil" /\ dropRet.at = "meta"
    /\ ds = NoStore
    /\ stops = 0
    /\ lastTx.writes = <<"delete tip", "delete tx", "delete marker">>

\* The step is DropTxIndex returning an error.
DropReturnsError ==
    /\ dropPc # "idle" /\ dropPc' = "idle"
    /\ dropRet'.op = "Drop" /\ dropRet'.code \in {"err", "interrupt"}

\* What the failed step leaves: a store failure nothing, the interrupt seen
\* after a batch that batch.
NothingBeyondFailedStep ==
    IF dropRet'.code = "err" THEN ds' = ds
    ELSE [ds' EXCEPT !.tx = ds.tx] = ds /\ ds.tx - ds'.tx <= MaxDeletions

\* C15 as claimed: whenever DropTxIndex returns an error, from a store failure
\* in any step or from the interrupt, the marker is set in the store and no step
\* after the failed one has been executed.
C15_ErrorKeepsMarkerSet ==
    [][DropReturnsError => (ds'.marker /\ NothingBeyondFailedStep)]_vars

\* C15 amended: whenever DropTxIndex returns an error the marker is as it was
\* before the failed step, it is set when the failed step comes after the write
\* of the marker, and no step after the failed one has been executed.
C15_ErrorKeepsMarker ==
    [][DropReturnsError =>
          /\ ds'.marker = ds.marker
          /\ dropRet'.at \notin {"exists", "mark"} => ds'.marker
          /\ NothingBeyondFailedStep]_vars

\* C15 witness: the removal of the locator buckets failed at its second delete.
C15_Witness ==
    /\ dropRet.op = "Drop" /\ dropRet.code = "err" /\ dropRet.at = "blockid"
    /\ dropRet.held.idByHash = Absent /\ dropRet.held.hashByID # Absent
    /\ ds.marker /\ ds.idByHash # Absent

\* C16: a DropTxIndex that is stopped, interrupted or failed any number of
\* times (here up to MaxStops), at any of its steps, and then run again without
\* further interruption eventually returns nil with the tx entries, the three
\* buckets, the dependent index, the tip and the marker removed.
C16_DropResumes == <>(dropRet.op = "Drop" /\ dropRet.code = "nil" /\ ds = NoStore)

\* C29: no step of DropTxIndex deletes a tx entry or a bucket of the index
\* while the dependent address index exists, and a DropTxIndex that returns the
\* error or the interrupt of the dependent drop leaves the tx entries and both
\* locator buckets as they were.
C29_DependentIndexFirst ==
    [][/\ (\E b \in BucketNames : ds'[b] < ds[b]) => ~ds.addr
       /\ (dropPc = "addr" /\ dropPc' = "idle" /\ dropRet'.op = "Drop")
            => /\ dropRet'.code \in {"err", "interrupt"}
               /\ dropRet'.at = "addr"
               /\ \A b \in BucketNames : ds'[b] = ds[b]
               /\ ds'.addr = ds.addr]_vars

\* C29 witness: the dependent drop was cancelled on a first run; the index
\* still holds its tx entries and its locator entries.
C29_Witness ==
    /\ dropRet.op = "Drop" /\ dropRet.code = "interrupt" /\ dropRet.at = "addr"
    /\ ds.addr /\ ds.marker
    /\ ds.tx > 0 /\ ds.idByHash > 0 /\ ds.hashByID > 0

\* C30: a DropTxIndex that finds no index (its existence check read the store
\* without failure) returns nil from that step: no marker is written, the
\* dependent index is not dropped, no bucket is changed, no transaction commits.
C30_NothingToDrop ==
    [][(dropPc = "exists" /\ ~ds.tip /\ dropPc' # dropPc /\ stops' = stops)
          => /\ dropPc' = "idle"
             /\ dropRet'.op = "Drop" /\ dropRet'.code = "nil"
             /\ ds' = ds
             /\ lastTx' = lastTx]_vars

\* C30 witness: DropTxIndex returned nil from its existence check on a store
\* that has no index tip but holds the three buckets.
C30_Witness ==
    /\ dropRet.op = "Drop" /\ dropRet.code = "nil" /\ dropRet.at = "exists"
    /\ ~ds.tip /\ ~ds.marker
    /\ \A b \in BucketNames : ds[b] # Absent

\* C17: no read-write transaction of DropTxIndex deletes more than MaxDeletions
\* entries, the one that removes the two locator buckets included.
C17_BatchBound == lastTx.deleted <= MaxDeletions

\* ---------------------------------------------------------------- claims: Create

\* The step is a call of Create.
CreateCalled == dropPc = "idle" /\ dropPc' = "idle" /\ dropRet'.op = "Create"

\* C18: a Create that returns nil found none of the three buckets and leaves
\* the three allocated and empty; a Create called when any of them exists, so
\* every second Create, returns an error; and a Create that returns an error
\* leaves the store as it was, the existing buckets untouched in its own
\* transaction too.
C18_CreateOnce ==
    [][CreateCalled =>
          /\ dropRet'.code = "nil"
               => \A b \in BucketNames : ds[b] = Absent /\ ds'[b] = 0
          /\ (\E b \in BucketNames : ds[b] # Absent) => dropRet'.code = "err"
          /\ dropRet'.code = "err"
               => /\ ds' = ds
                  /\ \A b \in BucketNames : ds[b] # Absent => dropRet'.held[b] = ds[b]]_vars

\* C18 witness: on a dropped index Create succeeded, and the next Create
\* failed without any store failure.
C18_Witness ==
    /\ dropRet.op = "Create" /\ dropRet.code = "err"
    /\ lastTx.by = "create"
    /\ stops = 0
    /\ \A b \in BucketNames : ds[b] = 0

\* ---------------------------------------------------------------- claims: blockIndex

\* The nodes of the tip lists, as (height, position) pairs.
TipSlots == UNION {{<<h, i>> : i \in DOMAIN chainTips[h]} : h \in DOMAIN chainTips}

\* The indexed nodes that no indexed node names as its parent.
Childless ==
    {index[h] : h \in DOMAIN index} \
        {BlockNodes[index[h]].parent : h \in DOMAIN index}

\* C19: after AddNode calls that add no node twice and every parent before its
\* children, the tip lists hold exactly the indexed nodes that no indexed node
\* names as parent, each once and in the list of its own height.
C19_TipSet ==
    addOk =>
        /\ {chainTips[s[1]][s[2]] : s \in TipSlots} = Childless
        /\ Cardinality(TipSlots) = Cardinality(Childless)
        /\ \A s \in TipSlots : BlockNodes[chainTips[s[1]][s[2]]].height = s[1]

\* C19 witness: the siblings x and y were added, then c, the child of x: the
\* tips are y at height 1 and c at height 2.
C19_Witness ==
    /\ addOk
    /\ added = <<"g", "x", "y", "c">>
    /\ chainTips = [h \in {1, 2} |-> IF h = 1 THEN <<"y">> ELSE <<"c">>]

\* C20: SetStatusFlags(node, F) leaves every bit of F set and every other bit
\* as it was, UnsetStatusFlags(node, F) leaves every bit of F clear and every
\* other bit as it was; a second call of either with the same arguments would
\* change nothing; no other node's status, and neither map, is changed.
C20_StatusFlags ==
    [][flagOps' = flagOps + 1 =>
          LET n == biLast'.node
              F == biLast'.flags
              set == biLast'.op = "SetStatusFlags"
          IN  /\ \A i \in 0..(StatusBits - 1) :
                     Bit(status'[n], i) =
                        IF Bit(F, i) = 1 THEN (IF set THEN 1 ELSE 0) ELSE Bit(status[n], i)
              /\ status'[n] \in StatusValues
              /\ IF set THEN BitOr(status'[n], F) = status'[n]
                        ELSE BitAndNot(status'[n], F) = status'[n]
              /\ \A m \in NodeIDs \ {n} : status'[m] = status[m]
              /\ UNCHANGED <<index, chainTips>>]_vars

\* C20 witness: flags were set on an indexed node, then UnsetStatusFlags was
\* called on it with some flags, and the node keeps other flags.
C20_Witness ==
    /\ flagOps = 2
    /\ biLast.op = "UnsetStatusFlags"
    /\ biLast.flags # 0
    /\ status[biLast.node] # 0
    /\ BlockNodes[biLast.node].hash \in DOMAIN index

\* The node is in some tip list.
IsTip(tips, node) == \E h \in DOMAIN tips : \E i \in DOMAIN tips[h] : tips[h][i] = node

\* C28: after any AddNode calls no height of chainTips has an empty list, and
\* an AddNode whose parent is not a tip at the time (the parent already had a
\* child) changes the tip lists by the new tip only.
C28_NoEmptyTipList ==
    [][/\ \A h \in DOMAIN chainTips : chainTips[h] # <<>>
       /\ \A h \in DOMAIN chainTips' : chainTips'[h] # <<>>
       /\ Len(added') = Len(added) + 1 =>
             LET node == added'[Len(added')]
                 parent == BlockNodes[node].parent
             IN  (parent # Nil /\ parent # node /\ ~IsTip(chainTips, parent)) =>
                    \A h \in (DOMAIN chainTips) \cup (DOMAIN chainTips') :
                        TipsAt(chainTips', h) =
                           IF h = BlockNodes[node].height
                           THEN Append(TipsAt(chainTips, h), node)
                           ELSE TipsAt(chainTips, h)]_vars

\* C28 witness: x was the only tip of height 1 and got the children c and d:
\* height 1 has no entry, and d's AddNode found x no longer a tip.
C28_Witness ==
    /\ added = <<"g", "x", "c", "d">>
    /\ DOMAIN chainTips = {2}
    /\ chainTips[2] = <<"c", "d">>

\* ---------------------------------------------------------------- claims: the lock

\* The thread is between the first and the last access of its call to the
\* shared state, or past the last and not yet unlocked.
InCall(t) == thr[t].pc \notin {"idle", "lock"}

\* C21: under every interleaving of two threads calling AddNode, LookupNode,
\* HaveBlock, NodeStatus, SetStatusFlags and UnsetStatusFlags, a thread that is
\* anywhere between its call's first and last access to the shared state holds
\* the lock, as the writer for the three writing calls; a writer is never
\* inside its call together with a reader or another writer; and whenever no
\* writer is inside a call, the maps and every status are what the completed
\* calls give when each is applied in one piece at its unlock, so no flag
\* update is lost.
C21_LockHeldThroughout ==
    /\ \A t \in Threads :
          InCall(t) => IF thr[t].op \in WriteOps THEN rw.writer = t
                       ELSE t \in rw.readers /\ rw.writer = Nil
    /\ \A t, u \in Threads :
          (t # u /\ InCall(t) /\ InCall(u)) => (thr[t].op \in ReadOps /\ thr[u].op \in ReadOps)
    /\ rw.writer = Nil =>
          (index = ghost.index /\ chainTips = ghost.chainTips /\ status = ghost.status)

\* C21 witness: SetStatusFlags(n, F) is between its read and its write of the
\* status of n, holding the lock as writer, while the other thread has called
\* UnsetStatusFlags(n, G) with G disjoint from F and waits for the lock; G is
\* set in the status of n.
C21_Witness ==
    /\ thr["t1"].op = "SetStatusFlags" /\ thr["t1"].pc = "store" /\ thr["t1"].flags = 1
    /\ thr["t2"].op = "UnsetStatusFlags" /\ thr["t2"].pc = "lock" /\ thr["t2"].flags = 2
    /\ thr["t1"].node = thr["t2"].node
    /\ status[thr["t1"].node] = 2
    /\ rw.writer = "t1"

\* ---------------------------------------------------------------- claims: merkle

IsPowerOfTwo(p) == \E e \in 0..(Log2Floor(MaxPowIn) + 2) : p = 2 ^ e

\* C25: for every n from 1 to MaxPowIn, nextPowerOfTwo(n) is a power of two,
\* is at least n, no smaller power of two is at least n, and it is n itself
\* when n is a power of two; 1, 2, 3, 5, 1024 and 1025 give 1, 2, 4, 8, 1024
\* and 2048.
C25_SmallestPowerOfTwo ==
    powOut # 0 =>
        /\ IsPowerOfTwo(powOut)
        /\ powOut >= powIn
        /\ \A q \in 1..(powOut - 1) : ~(IsPowerOfTwo(q) /\ q >= powIn)
        /\ IsPowerOfTwo(powIn) => powOut = powIn
        /\ powIn = 1 => powOut = 1
        /\ powIn = 2 => powOut = 2
        /\ powIn = 3 => powOut = 4
        /\ powIn = 5 => powOut = 8
        /\ powIn = 1024 => powOut = 1024
        /\ powIn = 1025 => powOut = 2048

\* C25 witness: nextPowerOfTwo(1025) returned 2048.
C25_Witness == powIn = 1025 /\ powOut = 2048

\* The hash of the leaf made from the k-th transaction (k from 1).
Leaf(k) ==
    IF witness THEN (IF k = 1 THEN <<"zero">> ELSE <<"full", transactions[k]>>)
    ELSE <<"txid", transactions[k]>>

\* The smallest power of two that is at least n, by search.
SmallestPow(n) == CHOOSE p \in 1..(2 * n) : IsPowerOfTwo(p) /\ p >= n /\ \A q \in 1..(p - 1) : ~(IsPowerOfTwo(q) /\ q >= n)

\* C22: the array BuildMerkleTreeStore returns for n transactions has length 1
\* and holds the zero hash when n = 0; when n > 0 its length is 2*P-1 with P
\* the smallest power of two at least n, slots 0..n-1 hold the leaves of the
\* transactions in input order, and slots n..P-1 are absent.
C22_ArrayShape ==
    merkles # <<>> =>
        LET n == Len(transactions) IN
        IF n = 0 THEN merkles = << <<"zero">> >>
        ELSE /\ Len(merkles) = 2 * SmallestPow(n) - 1
             /\ \A k \in 1..n : merkles[k] = Leaf(k)
             /\ \A k \in (n + 1)..SmallestPow(n) : merkles[k] = <<>>

\* C22 witness: a tree of five different-looking leaves was built, with three
\* absent slots after them.
C22_Witness ==
    /\ Len(transactions) = 5
    /\ transactions[1] # transactions[2]
    /\ Len(merkles) = 15
    /\ merkles[5] # <<>>
    /\ merkles[6] = <<>>

\* One level of the reference recursion: adjacent nodes paired left to right,
\* an unmatched last node paired with itself.
PairUp(level) ==
    [k \in 1..((Len(level) + 1) \div 2) |->
        <<"D", level[2 * k - 1], IF 2 * k <= Len(level) THEN level[2 * k] ELSE level[2 * k - 1]>>]

RECURSIVE RefRoot(_)
RefRoot(level) == IF Len(level) = 1 THEN level[1] ELSE RefRoot(PairUp(level))

\* C23: for every non-empty list, the last slot of the array returned by
\* BuildMerkleTreeStore is the root the reference recursion computes from the
\* leaves (pair adjacent nodes, pair an unmatched last node with itself,
\* repeat until one node is left), and calcMerkleRoot returns that root for
\* the plain leaves.
C23_RootIsReferenceRoot ==
    (merkles # <<>> /\ transactions # <<>>) =>
        /\ merkles[Len(merkles)] = RefRoot([k \in 1..Len(transactions) |-> Leaf(k)])
        /\ ~witness => calcMerkleRoot(transactions) = merkles[Len(merkles)]

\* C23 witness: a tree over six leaves was built, whose third pair of the
\* second level is unmatched.
C23_Witness ==
    /\ Len(transactions) = 6
    /\ Len(merkles) = 15
    /\ merkles[15] # <<>>

\* C24: in the returned array the parent of the slots 2i and 2i+1, which is
\* slot P+i, is absent when the left child is absent, is H(left||left) when
\* only the right child is absent, and is H(left||right) otherwise.
C24_ThreeCaseRule ==
    (merkles # <<>> /\ transactions # <<>>) =>
        LET P == (Len(merkles) + 1) \div 2 IN
        \A i \in 0..(P - 2) :
            LET left == merkles[2 * i + 1]
                right == merkles[2 * i + 2]
                parent == merkles[P + i + 1]
            IN  /\ left = <<>> => parent = <<>>
                /\ (left # <<>> /\ right = <<>>) => parent = <<"D", left, left>>
                /\ (left # <<>> /\ right # <<>>) => parent = <<"D", left, right>>

\* C24 witness: a tree over five leaves was built: the fifth leaf and the third
\* node of the level above are unmatched and their parents hash them with
\* themselves, and the fourth node of that level is absent.
C24_Witness ==
    /\ Len(transactions) = 5
    /\ Len(merkles) = 15
    /\ merkles[11] = <<"D", merkles[5], merkles[5]>>
    /\ merkles[12] = <<>>
    /\ merkles[14] = <<"D", merkles[11], merkles[11]>>

\* C27: in witness mode slot 0 of the array is the zero placeholder hash and
\* the array built for the list with another first transaction is the same
\* array; in non-witness mode slot 0 is the plain hash of the first
\* transaction.
C27_FirstLeafPlaceholder ==
    (merkles # <<>> /\ transactions # <<>>) =>
        /\ witness => merkles[1] = <<"zero">>
        /\ (witness /\ merklesOther # <<>>) => merklesOther = merkles
        /\ ~witness => merkles[1] = <<"txid", transactions[1]>>

\* C27 witness: both witness-mode arrays were built for two lists of three
\* transactions that differ in the first transaction only.
C27_Witness ==
    /\ witness
    /\ Len(transactions) = 3
    /\ other # transactions[1]
    /\ merkles # <<>>
    /\ merklesOther # <<>>

\* The commitment a block has to carry: H(witness root || signScript), the
\* root by the reference recursion over the zero placeholder and the
\* witness-inclusive hashes of the other transactions.
ExpectedCommitment ==
    <<"D", RefRoot([k \in 1..Len(blk.transactions) |->
                       IF k = 1 THEN <<"zero">> ELSE <<"full", blk.transactions[k]>>]),
      blk.signScript>>

\* C26: ValidateWitnessCommitment fails for a block without transactions;
\* else fails for a coinbase without inputs; else fails for an embedded
\* commitment equal to the zero hash; else returns nil exactly when the
\* embedded commitment is H(witness-mode root || coinbase script), and
\* otherwise fails with an error that holds the computed and the embedded
\* hash.
C26_WitnessCommitment ==
    verdict # NoVerdict =>
        IF blk.transactions = <<>> THEN verdict.kind = "no transactions"
        ELSE IF blk.txIn = 0 THEN verdict.kind = "no inputs"
        ELSE IF blk.commitment = <<"zero">> THEN verdict.kind = "no commitment"
        ELSE /\ verdict.kind \in {"nil", "mismatch"}
             /\ verdict.kind = "nil" <=> blk.commitment = ExpectedCommitment
             /\ verdict.kind = "mismatch" =>
                   /\ verdict.computed = ExpectedCommitment
                   /\ verdict.embedded = blk.commitment

\* C26 witness: a block of three transactions whose coinbase has an input
\* carrying a commitment made from the plain Merkle root of the same
\* transactions was rejected with both hashes.
C26_Witness ==
    /\ Len(blk.transactions) = 3
    /\ blk.txIn = 1
    /\ blk.commitment = <<"D", calcMerkleRoot(blk.transactions), blk.signScript>>
    /\ verdict.kind = "mismatch"
    /\ verdict.computed # verdict.embedded

\* The leaves of a list of transactions, in the mode of the trees.
LeafSeq(txs) ==
    [k \in 1..Len(txs) |->
        IF witness THEN (IF k = 1 THEN <<"zero">> ELSE <<"full", txs[k]>>)
        ELSE <<"txid", txs[k]>>]

\* C33: two non-empty lists whose leaf sequences differ, in length or in a
\* leaf, have trees with different roots.
C33_RootDeterminesLeaves ==
    (merkles # <<>> /\ merklesOther # <<>> /\ LeafSeq(transactions) # LeafSeq(others))
        => merkles[Len(merkles)] # merklesOther[Len(merklesOther)]

\* ---------------------------------------------------------------- claims: miner API

\* C34: a call of Generate returns: at once with an error and without starting
\* the miner when numBlocks is 0 or above 3000, and otherwise once the miner
\* has delivered numBlocks hashes or a nil hash.
C34_GenerateReturns == (genPc # "idle") ~> (genPc = "done")

\* ---------------------------------------------------------------- claims: Init

RECURSIVE Log2Up(_, _, _)
Log2Up(n, k, p) == IF p >= n THEN k ELSE Log2Up(n, k + 1, 2 * p)

\* ceil(log2(n)) for n >= 1.
CeilLog2(n) == Log2Up(n, 0, 1)

\* C6: on a store whose id->hash keys are exactly 1..K, Init returns and has set
\* the counter to K.
C6_InitRecoversCount ==
    <>(initPc = "idle" /\ ret.op = "Init" /\ curBlockID = U32(dense))

\* C8: every iteration of the binary search starts with highestKnown <
\* nextUnknown, highestKnown present and nextUnknown absent; it strictly shrinks
\* nextUnknown - highestKnown; the loop is left exactly when highestKnown + 1 =
\* nextUnknown; and it never makes more than ceil(log2(increment)) probes.
C8_BinarySearchTerminates ==
    [][initPc = "binary" =>
          /\ U32Less(highestKnown, nextUnknown)
          /\ InitProbe(highestKnown)
          /\ ~InitProbe(nextUnknown)
          /\ U32Less(U32Sub(nextUnknown', highestKnown'),
                     U32Sub(nextUnknown, highestKnown))
          /\ (initPc' = "idle") <=> (U32Add(highestKnown', U32(1)) = nextUnknown')
          /\ binProbes' <= CeilLog2(increment)]_vars

====
